---- MODULE Spec2Model ----
(***************************************************************************)
(* Execution-session orchestrator: the StateManager store                  *)
(* (app/state_manager.py) and the RobotRunner with its worker thread       *)
(* (app/robot_runner.py).                                                  *)
(*                                                                         *)
(* Encodings.  A Python str is a sequence of one-character strings, so     *)
(* that strip, lower, split and the substring tests are computed.  An      *)
(* Optional value is a sequence of length 0 (None) or 1.  A log message is *)
(* a sequence of strings (the pieces that the code concatenates).          *)
(***************************************************************************)
EXTENDS Integers, Sequences, FiniteSets, TLC

VARIABLES
    sessions,   \* StateManager._sessions: session id -> SessionState
    clock,      \* the value time.time() returns
    runner,     \* session id -> frame of the RobotRunner.start call
    worker,     \* session id -> frame of the RobotRunner._run_worker thread
    stops,      \* number of request_stop calls made so far
    view,       \* frame of a poller inside get_stats_view
    ret         \* the last direct store call and what it returned

vars == <<sessions, clock, runner, worker, stops, view, ret>>

(***************************************************************************)
(* Bounds of the model.                                                    *)
(***************************************************************************)
MaxLines == 3
MaxStops == 1
MaxClock == 1
MaxStopLines == 2
MaxViewLines == 2
MaxViews == 1
MaxCalls == 2
MaxCaseCalls == 4

(***************************************************************************)
(* Optional values and Python truthiness.                                  *)
(***************************************************************************)
None == <<>>
Some(x) == <<x>>
IsNone(o) == Len(o) = 0
\* truthiness of an Optional[str]: None and "" are falsy
TruthyStr(o) == Len(o) = 1 /\ Len(o[1]) > 0
\* truthiness of an Optional[list]: None and [] are falsy
TruthyList(o) == Len(o) = 1 /\ Len(o[1]) > 0
\* truthiness of an Optional[float]: None and 0.0 are falsy
TruthyNum(o) == Len(o) = 1 /\ o[1] # 0

Max(a, b) == IF a >= b THEN a ELSE b
Min(a, b) == IF a <= b THEN a ELSE b

(***************************************************************************)
(* str operations.                                                         *)
(***************************************************************************)
UpperChars == <<"A", "B", "C", "D", "E", "F", "G", "H", "I", "J", "K", "L", "M",
                "N", "O", "P", "Q", "R", "S", "T", "U", "V", "W", "X", "Y", "Z">>
LowerChars == <<"a", "b", "c", "d", "e", "f", "g", "h", "i", "j", "k", "l", "m",
                "n", "o", "p", "q", "r", "s", "t", "u", "v", "w", "x", "y", "z">>
WhiteSpace == {" ", "\t", "\n", "\r"}

LowerChar(c) ==
    IF \E i \in 1..Len(UpperChars) : UpperChars[i] = c
    THEN LowerChars[CHOOSE i \in 1..Len(UpperChars) : UpperChars[i] = c]
    ELSE c

\* str.lower()
Lower(s) == [i \in 1..Len(s) |-> LowerChar(s[i])]

\* sub in s
Contains(s, sub) ==
    \E i \in 1..(Len(s) - Len(sub) + 1) : SubSeq(s, i, i + Len(sub) - 1) = sub

\* s.startswith(p), s.endswith(p)
StartsWith(s, p) == Len(p) <= Len(s) /\ SubSeq(s, 1, Len(p)) = p
EndsWith(s, p) == Len(p) <= Len(s) /\ SubSeq(s, Len(s) - Len(p) + 1, Len(s)) = p

\* s.rstrip("\n")
RECURSIVE RStripNewline(_)
RStripNewline(s) ==
    IF Len(s) > 0 /\ s[Len(s)] = "\n" THEN RStripNewline(SubSeq(s, 1, Len(s) - 1)) ELSE s

RECURSIVE LStrip(_)
LStrip(s) == IF Len(s) > 0 /\ s[1] \in WhiteSpace THEN LStrip(Tail(s)) ELSE s

RECURSIVE RStrip(_)
RStrip(s) ==
    IF Len(s) > 0 /\ s[Len(s)] \in WhiteSpace THEN RStrip(SubSeq(s, 1, Len(s) - 1)) ELSE s

\* s.strip()
Strip(s) == LStrip(RStrip(s))

\* s.split(":", 1)[1], for s that contains a colon
AfterFirstColon(s) ==
    LET i == CHOOSE k \in 1..Len(s) : s[k] = ":" /\ \A j \in 1..(k - 1) : s[j] # ":"
    IN  SubSeq(s, i + 1, Len(s))

\* s.split()[-1], for s with at least one token: the text after the last
\* whitespace character of the right-stripped string
LastToken(s) ==
    LET r == RStrip(s)
        ws == {k \in 1..Len(r) : r[k] \in WhiteSpace}
        i == IF ws = {} THEN 0 ELSE CHOOSE k \in ws : \A j \in ws : j <= k
    IN  SubSeq(r, i + 1, Len(r))

\* bytes.decode("utf-8", errors="replace"): a byte that is not valid UTF-8
\* (written "<ff>") becomes the replacement character (written "<fffd>")
Decode(raw) == [i \in 1..Len(raw) |-> IF raw[i] = "<ff>" THEN "<fffd>" ELSE raw[i]]

\* level.upper() on the level names in use
UpperLevel(level) ==
    CASE level = "debug" -> "DEBUG"
      [] level = "info" -> "INFO"
      [] level = "warn" -> "WARN"
      [] level = "error" -> "ERROR"
      [] OTHER -> level

(***************************************************************************)
(* state_manager.py: constants and records.                                *)
(***************************************************************************)
MAX_LOG_LINES == 1000

CASE_NOTRUN == "NOTRUN"
CASE_SCHEDULE == "SCHEDULE"
CASE_TESTING == "TESTING"
CASE_PASS == "PASS"
CASE_FAIL == "FAIL"
CASE_SKIP == "SKIP"

EmptyMap == [x \in {} |-> x]

LogLine(timestamp, level, message) ==
    [timestamp |-> timestamp, level |-> level, message |-> message]

Progress == [total_steps |-> 0, current_step |-> 0]

Stats == [duration_seconds |-> 0, success |-> FALSE, passed |-> 0, failed |-> 0,
          skipped |-> 0, artifacts |-> EmptyMap]

SessionState(sid, now) ==
    [session_id |-> sid, status |-> "PENDING", created_at |-> now, updated_at |-> now,
     started_at |-> None, finished_at |-> None, progress |-> Progress, stats |-> Stats,
     logs |-> <<>>, ui_lock |-> FALSE, case_status |-> EmptyMap,
     current_case_name |-> None, current_case_doc |-> None]

\* d[k] = v on a dict
Put(d, k, v) == [x \in DOMAIN d \cup {k} |-> IF x = k THEN v ELSE d[x]]

\* d.update(e)
Update(d, e) == [x \in DOMAIN d \cup DOMAIN e |-> IF x \in DOMAIN e THEN e[x] ELSE d[x]]

\* d.get(k, default)
Get(d, k, default) == IF k \in DOMAIN d THEN d[k] ELSE default

\* a bound that keeps the oldest entries and drops the newest
BoundLogs_KeepsOldest(logs) ==
    IF Len(logs) > MAX_LOG_LINES THEN SubSeq(logs, 1, MAX_LOG_LINES) ELSE logs

\* logs[-MAX_LOG_LINES:] when the list is longer than the cap
BoundLogs(logs) ==
    IF Len(logs) > MAX_LOG_LINES
    THEN SubSeq(logs, Len(logs) - MAX_LOG_LINES + 1, Len(logs))
    ELSE logs

(***************************************************************************)
(* StateManager mutators.  Each runs under the store lock, so each is one  *)
(* function from the store (ss) and the time (now) to the new store.       *)
(***************************************************************************)
append_log(ss, now, sid, level, message) ==
    IF sid \notin DOMAIN ss THEN ss
    ELSE LET s == ss[sid]
             logs == BoundLogs(Append(s.logs, LogLine(now, UpperLevel(level), message)))
         IN  [ss EXCEPT ![sid] = [s EXCEPT !.logs = logs, !.updated_at = now]]

\* a create_session that starts from an empty store
create_session_Alone(ss, now, sid) ==
    append_log(Put(EmptyMap, sid, SessionState(sid, now)), now, sid, "INFO",
               <<"Session created.">>)

create_session(ss, now, sid) ==
    append_log(Put(ss, sid, SessionState(sid, now)), now, sid, "INFO", <<"Session created.">>)

\* a set_status that creates the record of an unknown id
set_status_Creates(ss, now, sid, status) ==
    IF sid \notin DOMAIN ss THEN Put(ss, sid, [SessionState(sid, now) EXCEPT !.status = status])
    ELSE [ss EXCEPT ![sid].status = status, ![sid].updated_at = now]

set_status(ss, now, sid, status) ==
    IF sid \notin DOMAIN ss THEN ss
    ELSE [ss EXCEPT ![sid].status = status, ![sid].updated_at = now]

set_artifacts(ss, now, sid, artifacts) ==
    IF sid \notin DOMAIN ss THEN ss
    ELSE [ss EXCEPT ![sid].stats.artifacts = Update(@, artifacts), ![sid].updated_at = now]

\* a set_progress that writes the progress of every session of the store
set_progress_Shared(ss, now, sid, current_step, total_steps) ==
    IF sid \notin DOMAIN ss THEN ss
    ELSE [k \in DOMAIN ss |->
            [ss[k] EXCEPT !.progress = [current_step |-> Max(0, current_step),
                                        total_steps |-> Max(0, total_steps)],
                          !.updated_at = now]]

set_progress(ss, now, sid, current_step, total_steps) ==
    IF sid \notin DOMAIN ss THEN ss
    ELSE [ss EXCEPT ![sid].progress = [current_step |-> Max(0, current_step),
                                       total_steps |-> Max(0, total_steps)],
                    ![sid].updated_at = now]

\* for c in cases: if c: case_status[c] = SCHEDULE  (on a fresh map)
ScheduledCases(cases) ==
    [c \in {cases[i] : i \in {j \in 1..Len(cases) : Len(cases[j]) > 0}} |-> CASE_SCHEDULE]

\* an initialize_cases that adds to the map it finds
initialize_cases_Merges(ss, now, sid, cases) ==
    IF sid \notin DOMAIN ss THEN ss
    ELSE LET ss1 == [ss EXCEPT ![sid].case_status = Update(@, ScheduledCases(cases)),
                               ![sid].updated_at = now]
         IN  IF Len(cases) > 0
             THEN append_log(ss1, now, sid, "INFO",
                             <<"Initialized ", ToString(Len(cases)), " test cases as SCHEDULE.">>)
             ELSE ss1

initialize_cases(ss, now, sid, cases) ==
    IF sid \notin DOMAIN ss THEN ss
    ELSE LET ss1 == [ss EXCEPT ![sid].case_status = ScheduledCases(cases),
                               ![sid].updated_at = now]
         IN  IF Len(cases) > 0
             THEN append_log(ss1, now, sid, "INFO",
                             <<"Initialized ", ToString(Len(cases)), " test cases as SCHEDULE.">>)
             ELSE ss1

set_ui_lock(ss, now, sid, locked) ==
    IF sid \notin DOMAIN ss THEN ss
    ELSE [ss EXCEPT ![sid].ui_lock = locked, ![sid].updated_at = now]

mark_started(ss, now, sid) ==
    IF sid \notin DOMAIN ss THEN ss
    ELSE append_log([ss EXCEPT ![sid].status = "RUNNING", ![sid].started_at = Some(now),
                               ![sid].updated_at = now],
                    now, sid, "INFO", <<"Execution started.">>)

\* str(bool)
BoolStr(b) == IF b THEN "True" ELSE "False"

FinishedStatus(success) == IF success THEN "COMPLETED" ELSE "FAILED"

FinishedMessage(success, passed, failed, skipped) ==
    <<"Execution finished. Success=", BoolStr(success), " (Passed=", ToString(passed),
      ", Failed=", ToString(failed), ", Skipped=", ToString(skipped), ").">>

\* a mark_finished that also clears the current case
mark_finished_ClearsCase(ss, now, sid, success, totals, started_at) ==
    IF sid \notin DOMAIN ss THEN ss
    ELSE LET duration == IF TruthyNum(started_at) THEN Max(0, now - started_at[1]) ELSE 0
             passed == Get(totals, "passed", 0)
             failed == Get(totals, "failed", 0)
             skipped == Get(totals, "skipped", 0)
             ss1 == [ss EXCEPT ![sid].status = FinishedStatus(success),
                               ![sid].finished_at = Some(now),
                               ![sid].updated_at = now,
                               ![sid].stats.duration_seconds = duration,
                               ![sid].stats.success = success,
                               ![sid].stats.passed = passed,
                               ![sid].stats.failed = failed,
                               ![sid].stats.skipped = skipped,
                               ![sid].ui_lock = FALSE,
                               ![sid].current_case_name = None]
         IN  append_log(ss1, now, sid, "INFO", FinishedMessage(success, passed, failed, skipped))

\* a mark_finished that leaves the UI locked
mark_finished_KeepsLock(ss, now, sid, success, totals, started_at) ==
    IF sid \notin DOMAIN ss THEN ss
    ELSE LET passed == Get(totals, "passed", 0)
             failed == Get(totals, "failed", 0)
             skipped == Get(totals, "skipped", 0)
             ss1 == [ss EXCEPT ![sid].status = FinishedStatus(success),
                               ![sid].finished_at = Some(now),
                               ![sid].updated_at = now,
                               ![sid].stats.duration_seconds =
                                   IF TruthyNum(started_at) THEN Max(0, now - started_at[1]) ELSE 0,
                               ![sid].stats.success = success,
                               ![sid].stats.passed = passed,
                               ![sid].stats.failed = failed,
                               ![sid].stats.skipped = skipped]
         IN  append_log(ss1, now, sid, "INFO", FinishedMessage(success, passed, failed, skipped))

mark_finished(ss, now, sid, success, totals, started_at) ==
    IF sid \notin DOMAIN ss THEN ss
    ELSE LET duration == IF TruthyNum(started_at) THEN Max(0, now - started_at[1]) ELSE 0
             passed == Get(totals, "passed", 0)
             failed == Get(totals, "failed", 0)
             skipped == Get(totals, "skipped", 0)
             ss1 == [ss EXCEPT ![sid].status = FinishedStatus(success),
                               ![sid].finished_at = Some(now),
                               ![sid].updated_at = now,
                               ![sid].stats.duration_seconds = duration,
                               ![sid].stats.success = success,
                               ![sid].stats.passed = passed,
                               ![sid].stats.failed = failed,
                               ![sid].stats.skipped = skipped,
                               ![sid].ui_lock = FALSE]
         IN  append_log(ss1, now, sid, "INFO", FinishedMessage(success, passed, failed, skipped))

\* a set_current_case that leaves the previous case TESTING
DemotePrevious_Never(s, name) == s.case_status

\* the demotion of the previous current case in set_current_case
DemotePrevious(s, name) ==
    IF /\ TruthyStr(s.current_case_name)
       /\ s.current_case_name # name
       /\ s.current_case_name[1] \in DOMAIN s.case_status
       /\ s.case_status[s.current_case_name[1]] = CASE_TESTING
    THEN Put(s.case_status, s.current_case_name[1], CASE_SCHEDULE)
    ELSE s.case_status

\* a set_current_case that leaves a case with a result as it is
set_current_case_KeepsResult(ss, now, sid, name, documentation) ==
    IF sid \notin DOMAIN ss THEN ss
    ELSE LET s == ss[sid]
             cs1 == DemotePrevious(s, name)
             cs2 == IF /\ TruthyStr(name)
                       /\ Get(cs1, name[1], CASE_SCHEDULE) \notin {CASE_PASS, CASE_FAIL, CASE_SKIP}
                    THEN Put(cs1, name[1], CASE_TESTING) ELSE cs1
         IN  [ss EXCEPT ![sid] = [s EXCEPT !.case_status = cs2,
                                           !.current_case_name = name,
                                           !.current_case_doc = documentation,
                                           !.updated_at = now]]

set_current_case(ss, now, sid, name, documentation) ==
    IF sid \notin DOMAIN ss THEN ss
    ELSE LET s == ss[sid]
             cs1 == DemotePrevious(s, name)
             cs2 == IF TruthyStr(name) THEN Put(cs1, name[1], CASE_TESTING) ELSE cs1
         IN  [ss EXCEPT ![sid] = [s EXCEPT !.case_status = cs2,
                                           !.current_case_name = name,
                                           !.current_case_doc = documentation,
                                           !.updated_at = now]]

\* a set_case_result that keeps an earlier PASS, FAIL or SKIP
set_case_result_KeepsTerminal(ss, now, sid, name, outcome) ==
    IF outcome \notin {CASE_PASS, CASE_FAIL, CASE_SKIP} THEN ss
    ELSE IF sid \notin DOMAIN ss THEN ss
    ELSE LET s == ss[sid]
             isCurrent == s.current_case_name = Some(name)
             kept == Get(s.case_status, name, CASE_NOTRUN)
         IN  [ss EXCEPT ![sid] =
                 [s EXCEPT !.case_status =
                               Put(s.case_status, name,
                                   IF kept \in {CASE_PASS, CASE_FAIL, CASE_SKIP}
                                   THEN kept ELSE outcome),
                           !.current_case_name = IF isCurrent THEN None ELSE @,
                           !.current_case_doc = IF isCurrent THEN None ELSE @,
                           !.updated_at = now]]

\* a set_case_result that leaves the current-case pointer as it is
set_case_result_KeepsCurrent(ss, now, sid, name, outcome) ==
    IF outcome \notin {CASE_PASS, CASE_FAIL, CASE_SKIP} THEN ss
    ELSE IF sid \notin DOMAIN ss THEN ss
    ELSE [ss EXCEPT ![sid].case_status = Put(@, name, outcome), ![sid].updated_at = now]

\* a set_case_result that stores whatever outcome it is given
set_case_result_AnyOutcome(ss, now, sid, name, outcome) ==
    IF sid \notin DOMAIN ss THEN ss
    ELSE [ss EXCEPT ![sid].case_status = Put(@, name, outcome), ![sid].updated_at = now]

set_case_result(ss, now, sid, name, outcome) ==
    IF outcome \notin {CASE_PASS, CASE_FAIL, CASE_SKIP} THEN ss
    ELSE IF sid \notin DOMAIN ss THEN ss
    ELSE LET s == ss[sid]
             isCurrent == s.current_case_name = Some(name)
         IN  [ss EXCEPT ![sid] =
                 [s EXCEPT !.case_status = Put(s.case_status, name, outcome),
                           !.current_case_name = IF isCurrent THEN None ELSE @,
                           !.current_case_doc = IF isCurrent THEN None ELSE @,
                           !.updated_at = now]]

(***************************************************************************)
(* robot_runner.py: helpers of RobotRunner.start.                          *)
(***************************************************************************)
\* the run requests a client submits: project, tests_root, test_name,
\* test_cases (Optional list of names), config_folder
CaseA == <<"A">>
CaseB == <<"B">>

Requests ==
    {[project |-> "demo", tests_root |-> ".", test_name |-> None,
      test_cases |-> tc, config_folder |-> None] : tc \in {None, Some(<<CaseA>>)}}

\* _load_robot_settings: a list of <<key, value>> pairs; empty without a folder,
\* else the content of the settings file found there
load_robot_settings(config_folder) ==
    IF ~TruthyStr(config_folder) THEN <<>> ELSE <<<<"BROWSER", "chrome">>>>

\* _ensure_output_dir: output/<project or "default">/<timestamp>
ensure_output_dir(project, now) ==
    <<"output/", IF project = "" THEN "default" ELSE project, "/", ToString(now)>>

\* the artifacts dict RobotRunner.start records
Artifacts(out_dir) ==
    [k \in {"report_html", "log_html", "xunit_xml", "output_xml"} |->
        out_dir \o CASE k = "report_html" -> <<"/report.html">>
                     [] k = "log_html" -> <<"/log.html">>
                     [] k = "xunit_xml" -> <<"/xunit.xml">>
                     [] k = "output_xml" -> <<"/output.xml">>]

RECURSIVE VariableArgs(_)
VariableArgs(robot_vars) ==
    IF robot_vars = <<>> THEN <<>>
    ELSE <<<<"--variable">>, <<Head(robot_vars)[1], ":", Head(robot_vars)[2]>>>>
         \o VariableArgs(Tail(robot_vars))

RECURSIVE TestArgs(_)
TestArgs(cases) ==
    IF cases = <<>> THEN <<>>
    ELSE (IF Len(Head(cases)) > 0 THEN <<<<"--test">>, Head(cases)>> ELSE <<>>)
         \o TestArgs(Tail(cases))

\* _build_robot_command: the list of arguments, each a sequence of strings
build_robot_command(tests_root, test_name, test_cases, output_dir, robot_vars) ==
    <<<<"python">>, <<"-m">>, <<"robot">>,
      <<"--outputdir">>, output_dir, <<"--report">>, <<"report.html">>,
      <<"--log">>, <<"log.html">>, <<"--xunit">>, <<"xunit.xml">>,
      <<"--output">>, <<"output.xml">>>>
    \o VariableArgs(robot_vars)
    \o (IF IsNone(test_cases) THEN <<>> ELSE TestArgs(test_cases[1]))
    \o <<IF TruthyStr(test_name) THEN <<tests_root, "/">> \o test_name[1] ELSE <<tests_root>>>>

\* " ".join(cmd)
RECURSIVE Join(_)
Join(cmd) ==
    IF cmd = <<>> THEN <<>>
    ELSE IF Len(cmd) = 1 THEN Head(cmd)
    ELSE Head(cmd) \o <<" ">> \o Join(Tail(cmd))

(***************************************************************************)
(* robot_runner.py: the line classification of RobotRunner._run_worker.    *)
(***************************************************************************)
StrStartingTest == <<"s", "t", "a", "r", "t", "i", "n", "g", " ", "t", "e", "s", "t">>
StrStartSlash == <<"S", "T", "A", "R", "T", " ", "/">>
StrStartTest == <<"S", "t", "a", "r", "t", " ", "t", "e", "s", "t">>
WordPass == <<"p", "a", "s", "s">>
WordFail == <<"f", "a", "i", "l">>
WordSkip == <<"s", "k", "i", "p">>

\* for raw in stream: raw.decode(...).rstrip("\n"), then line.strip()
LineStr(raw) == Strip(RStripNewline(Decode(raw)))

\* the test of line 204
IsStartLine(line_str) ==
    \/ Contains(Lower(line_str), StrStartingTest)
    \/ StartsWith(line_str, StrStartSlash)
    \/ StartsWith(line_str, StrStartTest)

\* lines 206-214: the case name of a Start line
StartName(line_str) ==
    IF Contains(line_str, <<":">>)
    THEN LET n == Strip(AfterFirstColon(line_str))
         IN  IF Len(n) = 0 THEN None ELSE Some(n)
    ELSE Some(LastToken(line_str))

\* " | w" in lowered or lowered.endswith(w) or lowered.startswith(w) or " w " in lowered
MatchesWord(lowered, w) ==
    \/ Contains(lowered, <<" ", "|", " ">> \o w)
    \/ EndsWith(lowered, w)
    \/ StartsWith(lowered, w)
    \/ Contains(lowered, <<" ">> \o w \o <<" ">>)

\* a detection that tries fail before pass
ResultDetected_FailFirst(line_str) ==
    LET lowered == Lower(line_str)
    IN  IF MatchesWord(lowered, WordFail) THEN Some(CASE_FAIL)
        ELSE IF MatchesWord(lowered, WordPass) THEN Some(CASE_PASS)
        ELSE IF MatchesWord(lowered, WordSkip) THEN Some(CASE_SKIP)
        ELSE None

\* lines 229-238: result_detected
ResultDetected(line_str) ==
    LET lowered == Lower(line_str)
    IN  IF MatchesWord(lowered, WordPass) THEN Some(CASE_PASS)
        ELSE IF MatchesWord(lowered, WordFail) THEN Some(CASE_FAIL)
        ELSE IF MatchesWord(lowered, WordSkip) THEN Some(CASE_SKIP)
        ELSE None

\* lines 229-238: the totals after the line's result detection
TotalsAfter(totals, line_str) ==
    LET r == ResultDetected(line_str)
    IN  IF r = Some(CASE_PASS) THEN [totals EXCEPT !.passed = @ + 1]
        ELSE IF r = Some(CASE_FAIL) THEN [totals EXCEPT !.failed = @ + 1]
        ELSE IF r = Some(CASE_SKIP) THEN [totals EXCEPT !.skipped = @ + 1]
        ELSE totals

\* a step that advances by two
StepAfterResult_ByTwo(current_step, total_steps) == current_step + 2

\* line 242
StepAfterResult(current_step, total_steps) ==
    Min(current_step + 1, Max(total_steps, current_step + 1))

\* a total that follows current_step
ProgressTotal_CurrentStep(current_step, total_steps) == current_step

\* lines 247 and 257: the total_steps argument of set_progress
ProgressTotal(current_step, total_steps) ==
    Max(total_steps, IF total_steps = 0 THEN current_step ELSE total_steps)

\* the lines the external process may write
RawLines ==
    {<<"S", "t", "a", "r", "t", "i", "n", "g", " ", "t", "e", "s", "t", ":", " ", "A", "\n">>,
     <<"S", "t", "a", "r", "t", " ", "t", "e", "s", "t", " ", "B", "\n">>,
     <<"S", "t", "a", "r", "t", "i", "n", "g", " ", "t", "e", "s", "t", ":", "\n">>,
     <<"A", " ", "|", " ", "P", "A", "S", "S", " ", "|", "\n">>,
     <<"x", " ", "f", "a", "i", "l", "\n">>,
     <<"s", "k", "i", "p", "\n">>,
     <<"h", "e", "l", "l", "o", "\n">>,
     <<" ", "\n">>}

ExitCodes == {0, 1}

(***************************************************************************)
(* Initial state: an empty store, no call in progress.                     *)
(***************************************************************************)
SessionIds == {"s1"}

IdleView == [pc |-> "idle", calls |-> 0]
NoCall == [op |-> "none"]

Init ==
    /\ sessions = EmptyMap
    /\ clock = 0
    /\ runner = EmptyMap
    /\ worker = EmptyMap
    /\ stops = 0
    /\ view = IdleView
    /\ ret = NoCall

\* time.time() moves on
Tick ==
    /\ clock < MaxClock
    /\ clock' = clock + 1
    /\ UNCHANGED <<sessions, runner, worker, stops, view, ret>>

(***************************************************************************)
(* A run request: create the session, seed the known cases, then           *)
(* RobotRunner.start, one store call at a time.                            *)
(***************************************************************************)
CreateSession(ids) ==
    \E sid \in ids \ DOMAIN sessions, req \in Requests :
        /\ sessions' = create_session(sessions, clock, sid)
        /\ runner' = Put(runner, sid,
                         [pc |-> IF TruthyList(req.test_cases)
                                 THEN "initialize_cases" ELSE "set_ui_lock",
                          req |-> req, out_dir |-> <<>>, cmd |-> <<>>])
        /\ UNCHANGED <<clock, worker, stops, view, ret>>

SeedCases(sid) ==
    /\ sid \in DOMAIN runner
    /\ runner[sid].pc = "initialize_cases"
    /\ sessions' = initialize_cases(sessions, clock, sid, runner[sid].req.test_cases[1])
    /\ runner' = [runner EXCEPT ![sid].pc = "set_ui_lock"]
    /\ UNCHANGED <<clock, worker, stops, view, ret>>

\* a start that forgets to lock the UI
StartSetUiLock_Unlocked(sid) ==
    /\ sid \in DOMAIN runner
    /\ runner[sid].pc = "set_ui_lock"
    /\ sessions' = set_ui_lock(sessions, clock, sid, FALSE)
    /\ runner' = [runner EXCEPT ![sid].pc = "mark_started"]
    /\ UNCHANGED <<clock, worker, stops, view, ret>>

StartSetUiLock(sid) ==
    /\ sid \in DOMAIN runner
    /\ runner[sid].pc = "set_ui_lock"
    /\ sessions' = set_ui_lock(sessions, clock, sid, TRUE)
    /\ runner' = [runner EXCEPT ![sid].pc = "mark_started"]
    /\ UNCHANGED <<clock, worker, stops, view, ret>>

StartMarkStarted(sid) ==
    /\ sid \in DOMAIN runner
    /\ runner[sid].pc = "mark_started"
    /\ sessions' = mark_started(sessions, clock, sid)
    /\ runner' = [runner EXCEPT ![sid].pc = "ensure_output_dir"]
    /\ UNCHANGED <<clock, worker, stops, view, ret>>

\* os.makedirs raises: the exception leaves start
StartOutputDirFails(sid) ==
    /\ sid \in DOMAIN runner
    /\ runner[sid].pc = "ensure_output_dir"
    /\ runner' = [runner EXCEPT ![sid].pc = "raised"]
    /\ UNCHANGED <<sessions, clock, worker, stops, view, ret>>

StartSetArtifacts(sid) ==
    /\ sid \in DOMAIN runner
    /\ runner[sid].pc = "ensure_output_dir"
    /\ LET out_dir == ensure_output_dir(runner[sid].req.project, clock)
       IN  /\ sessions' = set_artifacts(sessions, clock, sid, Artifacts(out_dir))
           /\ runner' = [runner EXCEPT ![sid].pc = "log_command", ![sid].out_dir = out_dir]
    /\ UNCHANGED <<clock, worker, stops, view, ret>>

StartLogCommand(sid) ==
    /\ sid \in DOMAIN runner
    /\ runner[sid].pc = "log_command"
    /\ LET req == runner[sid].req
           cmd == build_robot_command(req.tests_root, req.test_name, req.test_cases,
                                      runner[sid].out_dir,
                                      load_robot_settings(req.config_folder))
       IN  /\ sessions' = append_log(sessions, clock, sid, "INFO",
                                     <<"Starting Robot: ">> \o Join(cmd))
           /\ runner' = [runner EXCEPT ![sid].pc = "log_output_dir", ![sid].cmd = cmd]
    /\ UNCHANGED <<clock, worker, stops, view, ret>>

StartLogOutputDir(sid) ==
    /\ sid \in DOMAIN runner
    /\ runner[sid].pc = "log_output_dir"
    /\ sessions' = append_log(sessions, clock, sid, "INFO",
                              <<"Output dir: ">> \o runner[sid].out_dir)
    /\ runner' = [runner EXCEPT ![sid].pc = "thread_start"]
    /\ UNCHANGED <<clock, worker, stops, view, ret>>

\* the frame of _run_worker before its first statement
WorkerFrame ==
    [pc |-> "spawn", started_at |-> 0,
     totals |-> [passed |-> 0, failed |-> 0, skipped |-> 0],
     total_steps |-> 0, current_step |-> 0, current_case_name |-> None,
     line_str |-> <<>>, nread |-> 0, spawn |-> "none", returncode |-> None]

StartThread(sid) ==
    /\ sid \in DOMAIN runner
    /\ runner[sid].pc = "thread_start"
    /\ worker' = Put(worker, sid, WorkerFrame)
    /\ runner' = [runner EXCEPT ![sid].pc = "done"]
    /\ UNCHANGED <<sessions, clock, stops, view, ret>>

\* a request_stop that marks the session started again
RequestStop_Restarts(sid) ==
    /\ stops < MaxStops
    /\ sid \in DOMAIN sessions
    /\ sessions' = mark_started(append_log(sessions, clock, sid, "WARN",
                                           <<"Stop requested (not yet implemented).">>),
                                clock, sid)
    /\ stops' = stops + 1
    /\ UNCHANGED <<clock, runner, worker, view, ret>>

\* a request_stop that also ends the session
RequestStop_Cancels(sid) ==
    /\ stops < MaxStops
    /\ sid \in DOMAIN sessions
    /\ sessions' = set_status(append_log(sessions, clock, sid, "WARN",
                                         <<"Stop requested (not yet implemented).">>),
                              clock, sid, "FAILED")
    /\ stops' = stops + 1
    /\ UNCHANGED <<clock, runner, worker, view, ret>>

\* RobotRunner.request_stop
RequestStop(sid) ==
    /\ stops < MaxStops
    /\ sid \in DOMAIN sessions
    /\ sessions' = append_log(sessions, clock, sid, "WARN",
                              <<"Stop requested (not yet implemented).">>)
    /\ stops' = stops + 1
    /\ UNCHANGED <<clock, runner, worker, view, ret>>

(***************************************************************************)
(* RobotRunner._run_worker, one store call at a time.  The statements that *)
(* touch only the thread's locals run with the store call that follows.    *)
(***************************************************************************)
\* subprocess.Popen returns, or raises FileNotFoundError or another exception
WorkerSpawn(sid) ==
    /\ sid \in DOMAIN worker
    /\ worker[sid].pc = "spawn"
    /\ \E outcome \in {"ok", "FileNotFoundError", "Exception"} :
         worker' = [worker EXCEPT ![sid].started_at = clock,
                                  ![sid].spawn = outcome,
                                  ![sid].pc = IF outcome = "ok" THEN "set_status"
                                              ELSE "log_spawn_error"]
    /\ UNCHANGED <<sessions, clock, runner, stops, view, ret>>

SpawnErrorMessage(outcome) ==
    IF outcome = "FileNotFoundError"
    THEN <<"Robot not found. Ensure Robot Framework is installed.">>
    ELSE <<"Failed to start Robot: ", outcome>>

WorkerLogSpawnError(sid) ==
    /\ sid \in DOMAIN worker
    /\ worker[sid].pc = "log_spawn_error"
    /\ sessions' = append_log(sessions, clock, sid, "ERROR",
                              SpawnErrorMessage(worker[sid].spawn))
    /\ worker' = [worker EXCEPT ![sid].pc = "mark_finished_failed"]
    /\ UNCHANGED <<clock, runner, stops, view, ret>>

\* a spawn-failure path that returns without finishing the session
WorkerSpawnFailed_NoFinish(sid) ==
    /\ sid \in DOMAIN worker
    /\ worker[sid].pc = "mark_finished_failed"
    /\ worker' = [worker EXCEPT ![sid].pc = "done"]
    /\ UNCHANGED <<sessions, clock, runner, stops, view, ret>>

WorkerSpawnFailed(sid) ==
    /\ sid \in DOMAIN worker
    /\ worker[sid].pc = "mark_finished_failed"
    /\ sessions' = mark_finished(sessions, clock, sid, FALSE, worker[sid].totals,
                                 Some(worker[sid].started_at))
    /\ worker' = [worker EXCEPT ![sid].pc = "done"]
    /\ UNCHANGED <<clock, runner, stops, view, ret>>

WorkerSetStatus(sid) ==
    /\ sid \in DOMAIN worker
    /\ worker[sid].pc = "set_status"
    /\ sessions' = set_status(sessions, clock, sid, "RUNNING")
    /\ worker' = [worker EXCEPT ![sid].pc = "log_started"]
    /\ UNCHANGED <<clock, runner, stops, view, ret>>

WorkerLogStarted(sid) ==
    /\ sid \in DOMAIN worker
    /\ worker[sid].pc = "log_started"
    /\ sessions' = append_log(sessions, clock, sid, "INFO", <<"Robot process started.">>)
    /\ worker' = [worker EXCEPT ![sid].pc = "read", ![sid].current_case_name = None]
    /\ UNCHANGED <<clock, runner, stops, view, ret>>

\* a worker that puts the entry of a line in front of the log
WorkerReadLine_LogsInFront(sid, maxLines, lines) ==
    /\ sid \in DOMAIN worker
    /\ worker[sid].pc = "read"
    /\ worker[sid].nread < maxLines
    /\ \E raw \in lines :
         LET line_str == LineStr(raw)
         IN  IF Len(line_str) = 0
             THEN /\ worker' = [worker EXCEPT ![sid].nread = @ + 1]
                  /\ UNCHANGED sessions
             ELSE /\ sessions' = [sessions EXCEPT
                                     ![sid].logs = <<LogLine(clock, "INFO", line_str)>> \o @,
                                     ![sid].updated_at = clock]
                  /\ worker' = [worker EXCEPT ![sid].nread = @ + 1,
                                              ![sid].line_str = line_str,
                                              ![sid].pc = "classify"]
    /\ UNCHANGED <<clock, runner, stops, view, ret>>

\* the next line of the stream: an empty one is skipped, another is logged
WorkerReadLine(sid, maxLines, lines) ==
    /\ sid \in DOMAIN worker
    /\ worker[sid].pc = "read"
    /\ worker[sid].nread < maxLines
    /\ \E raw \in lines :
         LET line_str == LineStr(raw)
         IN  IF Len(line_str) = 0
             THEN /\ worker' = [worker EXCEPT ![sid].nread = @ + 1]
                  /\ UNCHANGED sessions
             ELSE /\ sessions' = append_log(sessions, clock, sid, "INFO", line_str)
                  /\ worker' = [worker EXCEPT ![sid].nread = @ + 1,
                                              ![sid].line_str = line_str,
                                              ![sid].pc = "classify"]
    /\ UNCHANGED <<clock, runner, stops, view, ret>>

\* a Start line that counts a step only when it names a case
WorkerStartLine_NamedOnly(sid) ==
    /\ sid \in DOMAIN worker
    /\ worker[sid].pc = "classify"
    /\ IsStartLine(worker[sid].line_str)
    /\ LET name == StartName(worker[sid].line_str)
       IN  /\ sessions' = set_current_case(sessions, clock, sid, name, None)
           /\ worker' = [worker EXCEPT ![sid].current_case_name = name,
                                       ![sid].total_steps = IF TruthyStr(name) THEN @ + 1 ELSE @,
                                       ![sid].pc = "start_progress"]
    /\ UNCHANGED <<clock, runner, stops, view, ret>>

\* lines 204-219: a Start line, up to set_current_case
WorkerStartLine(sid) ==
    /\ sid \in DOMAIN worker
    /\ worker[sid].pc = "classify"
    /\ IsStartLine(worker[sid].line_str)
    /\ LET name == StartName(worker[sid].line_str)
       IN  /\ sessions' = set_current_case(sessions, clock, sid, name, None)
           /\ worker' = [worker EXCEPT ![sid].current_case_name = name,
                                       ![sid].total_steps = @ + 1,
                                       ![sid].pc = "start_progress"]
    /\ UNCHANGED <<clock, runner, stops, view, ret>>

\* lines 221-226
WorkerStartProgress(sid) ==
    /\ sid \in DOMAIN worker
    /\ worker[sid].pc = "start_progress"
    /\ sessions' = set_progress(sessions, clock, sid, worker[sid].current_step,
                                Max(worker[sid].total_steps, 1))
    /\ worker' = [worker EXCEPT ![sid].pc = "read"]
    /\ UNCHANGED <<clock, runner, stops, view, ret>>

\* line 240: result_detected and current_case_name
ResultApplies(w) ==
    /\ ~IsNone(ResultDetected(w.line_str))
    /\ TruthyStr(w.current_case_name)

\* lines 229-242: a result line with a tracked case, up to set_case_result
WorkerResultLine(sid) ==
    /\ sid \in DOMAIN worker
    /\ worker[sid].pc = "classify"
    /\ ~IsStartLine(worker[sid].line_str)
    /\ ResultApplies(worker[sid])
    /\ LET w == worker[sid]
       IN  /\ sessions' = set_case_result(sessions, clock, sid, w.current_case_name[1],
                                          ResultDetected(w.line_str)[1])
           /\ worker' = [worker EXCEPT
                            ![sid].totals = TotalsAfter(w.totals, w.line_str),
                            ![sid].current_step = StepAfterResult(w.current_step, w.total_steps),
                            ![sid].pc = "result_progress"]
    /\ UNCHANGED <<clock, runner, stops, view, ret>>

\* a worker that keeps its current case name after a result
WorkerResultProgress_KeepsName(sid) ==
    /\ sid \in DOMAIN worker
    /\ worker[sid].pc = "result_progress"
    /\ sessions' = set_progress(sessions, clock, sid, worker[sid].current_step,
                                ProgressTotal(worker[sid].current_step, worker[sid].total_steps))
    /\ worker' = [worker EXCEPT ![sid].pc = "read"]
    /\ UNCHANGED <<clock, runner, stops, view, ret>>

\* a worker that publishes its counters with every result
WorkerResultProgress_PublishesTotals(sid) ==
    /\ sid \in DOMAIN worker
    /\ worker[sid].pc = "result_progress"
    /\ sessions' = [set_progress(sessions, clock, sid, worker[sid].current_step,
                                 ProgressTotal(worker[sid].current_step,
                                               worker[sid].total_steps))
                        EXCEPT ![sid].stats.passed = worker[sid].totals.passed,
                               ![sid].stats.failed = worker[sid].totals.failed,
                               ![sid].stats.skipped = worker[sid].totals.skipped]
    /\ worker' = [worker EXCEPT ![sid].current_case_name = None, ![sid].pc = "read"]
    /\ UNCHANGED <<clock, runner, stops, view, ret>>

\* lines 244-251
WorkerResultProgress(sid) ==
    /\ sid \in DOMAIN worker
    /\ worker[sid].pc = "result_progress"
    /\ sessions' = set_progress(sessions, clock, sid, worker[sid].current_step,
                                ProgressTotal(worker[sid].current_step, worker[sid].total_steps))
    /\ worker' = [worker EXCEPT ![sid].current_case_name = None, ![sid].pc = "read"]
    /\ UNCHANGED <<clock, runner, stops, view, ret>>

\* a worker that counts every other line as a step
WorkerOtherLine_CountsStep(sid) ==
    /\ sid \in DOMAIN worker
    /\ worker[sid].pc = "classify"
    /\ ~IsStartLine(worker[sid].line_str)
    /\ ~ResultApplies(worker[sid])
    /\ LET w == worker[sid]
       IN  /\ sessions' = set_progress(sessions, clock, sid, w.current_step,
                                       w.total_steps + 1)
           /\ worker' = [worker EXCEPT ![sid].totals = TotalsAfter(w.totals, w.line_str),
                                       ![sid].total_steps = @ + 1,
                                       ![sid].pc = "read"]
    /\ UNCHANGED <<clock, runner, stops, view, ret>>

\* lines 229-240 and 254-258: any other line
WorkerOtherLine(sid) ==
    /\ sid \in DOMAIN worker
    /\ worker[sid].pc = "classify"
    /\ ~IsStartLine(worker[sid].line_str)
    /\ ~ResultApplies(worker[sid])
    /\ LET w == worker[sid]
       IN  /\ sessions' = set_progress(sessions, clock, sid, w.current_step,
                                       ProgressTotal(w.current_step, w.total_steps))
           /\ worker' = [worker EXCEPT ![sid].totals = TotalsAfter(w.totals, w.line_str),
                                       ![sid].pc = "read"]
    /\ UNCHANGED <<clock, runner, stops, view, ret>>

\* lines 260-262: the stream closes, the process exits, the exit code is logged
WorkerLogExit(sid) ==
    /\ sid \in DOMAIN worker
    /\ worker[sid].pc = "read"
    /\ \E code \in ExitCodes :
         /\ sessions' = append_log(sessions, clock, sid, "INFO",
                                   <<"Robot process finished with code ", ToString(code), ".">>)
         /\ worker' = [worker EXCEPT ![sid].returncode = Some(code),
                                     ![sid].pc = "mark_finished"]
    /\ UNCHANGED <<clock, runner, stops, view, ret>>

\* a worker that also requires a zero failed count for success
WorkerMarkFinished_CountsDecide(sid) ==
    /\ sid \in DOMAIN worker
    /\ worker[sid].pc = "mark_finished"
    /\ sessions' = mark_finished(sessions, clock, sid,
                                 worker[sid].returncode[1] = 0 /\ worker[sid].totals.failed = 0,
                                 worker[sid].totals, Some(worker[sid].started_at))
    /\ worker' = [worker EXCEPT ![sid].pc = "done"]
    /\ UNCHANGED <<clock, runner, stops, view, ret>>

\* line 263
WorkerMarkFinished(sid) ==
    /\ sid \in DOMAIN worker
    /\ worker[sid].pc = "mark_finished"
    /\ sessions' = mark_finished(sessions, clock, sid, worker[sid].returncode[1] = 0,
                                 worker[sid].totals, Some(worker[sid].started_at))
    /\ worker' = [worker EXCEPT ![sid].pc = "done"]
    /\ UNCHANGED <<clock, runner, stops, view, ret>>

StartStep(sid) ==
    \/ SeedCases(sid)
    \/ StartSetUiLock(sid)
    \/ StartMarkStarted(sid)
    \/ StartOutputDirFails(sid)
    \/ StartSetArtifacts(sid)
    \/ StartLogCommand(sid)
    \/ StartLogOutputDir(sid)
    \/ StartThread(sid)

WorkerStep(sid, maxLines, lines) ==
    \/ WorkerSpawn(sid)
    \/ WorkerLogSpawnError(sid)
    \/ WorkerSpawnFailed(sid)
    \/ WorkerSetStatus(sid)
    \/ WorkerLogStarted(sid)
    \/ WorkerReadLine(sid, maxLines, lines)
    \/ WorkerStartLine(sid)
    \/ WorkerStartProgress(sid)
    \/ WorkerResultLine(sid)
    \/ WorkerResultProgress(sid)
    \/ WorkerOtherLine(sid)
    \/ WorkerLogExit(sid)
    \/ WorkerMarkFinished(sid)

(***************************************************************************)
(* Spec: one session from the run request to the end of its worker, the    *)
(* process writing up to MaxLines lines.                                   *)
(***************************************************************************)
Next ==
    \/ CreateSession(SessionIds)
    \/ \E sid \in SessionIds : StartStep(sid)
    \/ \E sid \in SessionIds : WorkerStep(sid, MaxLines, RawLines)

Spec == Init /\ [][Next]_vars

(***************************************************************************)
(* SpecStop: the same session with request_stop calls and the clock moving *)
(* at any point, the process writing up to MaxStopLines lines.             *)
(***************************************************************************)
StopLines ==
    {<<"S", "t", "a", "r", "t", "i", "n", "g", " ", "t", "e", "s", "t", ":", " ", "A", "\n">>,
     <<"A", " ", "|", " ", "P", "A", "S", "S", " ", "|", "\n">>}

NextStop ==
    \/ Tick
    \/ CreateSession(SessionIds)
    \/ \E sid \in SessionIds : StartStep(sid)
    \/ \E sid \in SessionIds : WorkerStep(sid, MaxStopLines, StopLines)
    \/ \E sid \in SessionIds : RequestStop(sid)

SpecStop == Init /\ [][NextStop]_vars

(***************************************************************************)
(* StateManager.get_stats_view called by a poller.  get returns the live   *)
(* SessionState under the lock; the fields of the response are then read   *)
(* from it one by one, in the order of the dict display, with no lock      *)
(* held.                                                                   *)
(***************************************************************************)
StatsFields ==
    <<"duration_seconds", "steps_completed", "success", "artifacts", "passed", "failed",
      "skipped", "started_at", "finished_at", "status">>

\* the expression get_stats_view evaluates for a key of its response
StatsField(s, key) ==
    CASE key = "duration_seconds" -> s.stats.duration_seconds
      [] key = "steps_completed" -> s.progress.current_step
      [] key = "success" -> s.stats.success
      [] key = "artifacts" -> s.stats.artifacts
      [] key = "passed" -> s.stats.passed
      [] key = "failed" -> s.stats.failed
      [] key = "skipped" -> s.stats.skipped
      [] key = "started_at" -> s.started_at
      [] key = "finished_at" -> s.finished_at
      [] key = "status" -> s.status

\* the response get_stats_view would build from one store state
StatsView(s) == [key \in {StatsFields[i] : i \in 1..Len(StatsFields)} |-> StatsField(s, key)]

\* s = self.get(session_id), then the first value of the response
StatsViewGet(sid) ==
    /\ view.pc \in {"idle", "returned"}
    /\ view.calls < MaxViews
    /\ sid \in DOMAIN sessions
    /\ view' = [pc |-> "reading", calls |-> view.calls + 1, sid |-> sid, next |-> 2,
                response |-> Put(EmptyMap, StatsFields[1],
                                 StatsField(sessions[sid], StatsFields[1]))]
    /\ UNCHANGED <<sessions, clock, runner, worker, stops, ret>>

\* the next value of the response; after the last one the call returns
StatsViewRead ==
    /\ view.pc = "reading"
    /\ view' = [view EXCEPT
                   !.response = Put(@, StatsFields[view.next],
                                    StatsField(sessions[view.sid], StatsFields[view.next])),
                   !.next = @ + 1,
                   !.pc = IF view.next = Len(StatsFields) THEN "returned" ELSE "reading"]
    /\ UNCHANGED <<sessions, clock, runner, worker, stops, ret>>

(***************************************************************************)
(* SpecView: one session and a poller of its stats view.                   *)
(***************************************************************************)
NextView ==
    \/ CreateSession(SessionIds)
    \/ \E sid \in SessionIds : StartStep(sid)
    \/ \E sid \in SessionIds : WorkerStep(sid, MaxViewLines, StopLines)
    \/ \E sid \in SessionIds : StatsViewGet(sid)
    \/ StatsViewRead

SpecView == Init /\ [][NextView]_vars

(***************************************************************************)
(* StateManager views, evaluated on one store state.  Each returns None    *)
(* for an unknown id.                                                      *)
(***************************************************************************)
\* Progress.percent, in hundredths: round(current_step / max(1, total_steps)
\* * 100.0, 2), ties to the even hundredth
Percent(progress) ==
    IF progress.total_steps <= 0 THEN 0
    ELSE LET d == Max(1, progress.total_steps)
             n == progress.current_step * 10000
             q == n \div d
             r == n % d
         IN  IF 2 * r > d \/ (2 * r = d /\ q % 2 = 1) THEN q + 1 ELSE q

get_case_status_view(ss, sid) ==
    IF sid \notin DOMAIN ss THEN None
    ELSE Some([session_id |-> ss[sid].session_id,
               cases |-> {[name |-> k, status |-> ss[sid].case_status[k]] :
                             k \in DOMAIN ss[sid].case_status}])

get_current_case_info_view(ss, sid) ==
    IF sid \notin DOMAIN ss THEN None
    ELSE Some([session_id |-> ss[sid].session_id, name |-> ss[sid].current_case_name,
               documentation |-> ss[sid].current_case_doc])

get_ui_lock_view(ss, sid) ==
    IF sid \notin DOMAIN ss THEN None
    ELSE Some([session_id |-> ss[sid].session_id, locked |-> ss[sid].ui_lock])

get_progress_view(ss, sid) ==
    IF sid \notin DOMAIN ss THEN None
    ELSE Some([total_steps |-> ss[sid].progress.total_steps,
               current_step |-> ss[sid].progress.current_step,
               percent |-> Percent(ss[sid].progress)])

get_stats_view(ss, sid) ==
    IF sid \notin DOMAIN ss THEN None ELSE Some(StatsView(ss[sid]))

\* [l for l in logs if l.level == lvl]
RECURSIVE FilterLevel(_, _)
FilterLevel(logs, lvl) ==
    IF logs = <<>> THEN <<>>
    ELSE (IF Head(logs).level = lvl THEN <<Head(logs)>> ELSE <<>>)
         \o FilterLevel(Tail(logs), lvl)

\* logs[-limit:] for limit >= 0: -0 is 0, so a limit of 0 keeps the whole list
LastN(logs, limit) ==
    IF limit = 0 \/ limit >= Len(logs) THEN logs
    ELSE SubSeq(logs, Len(logs) - limit + 1, Len(logs))

\* level is an Optional[str], limit an Optional[int]
get_logs_view(ss, sid, level, limit) ==
    IF sid \notin DOMAIN ss THEN None
    ELSE LET filtered == IF Len(level) = 1 /\ level[1] # ""
                         THEN FilterLevel(ss[sid].logs, UpperLevel(level[1]))
                         ELSE ss[sid].logs
             trimmed == IF Len(limit) = 1 /\ limit[1] >= 0
                        THEN LastN(filtered, limit[1]) ELSE filtered
         IN  Some(trimmed)

(***************************************************************************)
(* Direct calls of the store by one caller at a time.                      *)
(***************************************************************************)
MutatorCalls ==
    {[op |-> "append_log", args |-> <<"info", <<"note">>>>],
     [op |-> "set_status", args |-> <<"RUNNING">>],
     [op |-> "set_artifacts", args |-> <<[report_html |-> <<"r.html">>]>>],
     [op |-> "set_progress", args |-> <<1, 2>>],
     [op |-> "initialize_cases", args |-> <<<<CaseA>>>>],
     [op |-> "set_ui_lock", args |-> <<TRUE>>],
     [op |-> "mark_started", args |-> <<>>],
     [op |-> "mark_finished", args |-> <<TRUE, [passed |-> 1, failed |-> 0, skipped |-> 0], None>>],
     [op |-> "set_current_case", args |-> <<Some(CaseA), None>>],
     [op |-> "set_case_result", args |-> <<CaseA, CASE_PASS>>]}

ViewCalls ==
    {[op |-> "get_case_status_view", args |-> <<>>],
     [op |-> "get_current_case_info_view", args |-> <<>>],
     [op |-> "get_ui_lock_view", args |-> <<>>],
     [op |-> "get_progress_view", args |-> <<>>],
     [op |-> "get_stats_view", args |-> <<>>],
     [op |-> "get_logs_view", args |-> <<Some("info"), Some(1)>>]}

\* the calls on the case machine
CaseCalls ==
    {[op |-> "initialize_cases", args |-> <<cases>>] :
        cases \in {<<>>, <<CaseA>>, <<CaseA, <<>>, CaseB>>}}
    \cup {[op |-> "set_current_case", args |-> <<name, documentation>>] :
            name \in {None, Some(<<>>), Some(CaseA), Some(CaseB)},
            documentation \in {None, Some(<<"doc">>)}}
    \cup {[op |-> "set_case_result", args |-> <<name, outcome>>] :
            name \in {CaseA, CaseB}, outcome \in {CASE_PASS, CASE_FAIL, "ERROR"}}

\* the store after a mutator call
ApplyMutator(ss, now, sid, c) ==
    CASE c.op = "append_log" -> append_log(ss, now, sid, c.args[1], c.args[2])
      [] c.op = "set_status" -> set_status(ss, now, sid, c.args[1])
      [] c.op = "set_artifacts" -> set_artifacts(ss, now, sid, c.args[1])
      [] c.op = "set_progress" -> set_progress(ss, now, sid, c.args[1], c.args[2])
      [] c.op = "initialize_cases" -> initialize_cases(ss, now, sid, c.args[1])
      [] c.op = "set_ui_lock" -> set_ui_lock(ss, now, sid, c.args[1])
      [] c.op = "mark_started" -> mark_started(ss, now, sid)
      [] c.op = "mark_finished" -> mark_finished(ss, now, sid, c.args[1], c.args[2], c.args[3])
      [] c.op = "set_current_case" -> set_current_case(ss, now, sid, c.args[1], c.args[2])
      [] c.op = "set_case_result" -> set_case_result(ss, now, sid, c.args[1], c.args[2])

\* what a view call returns
ApplyView(ss, sid, c) ==
    CASE c.op = "get_case_status_view" -> get_case_status_view(ss, sid)
      [] c.op = "get_current_case_info_view" -> get_current_case_info_view(ss, sid)
      [] c.op = "get_ui_lock_view" -> get_ui_lock_view(ss, sid)
      [] c.op = "get_progress_view" -> get_progress_view(ss, sid)
      [] c.op = "get_stats_view" -> get_stats_view(ss, sid)
      [] c.op = "get_logs_view" -> get_logs_view(ss, sid, c.args[1], c.args[2])

CallCount == IF ret.op = "none" THEN 0 ELSE ret.calls

\* StateManager.create_session called directly
CallCreateSession(ids) ==
    \E sid \in ids \ DOMAIN sessions :
        /\ sessions' = create_session(sessions, clock, sid)
        /\ ret' = [op |-> "create_session", sid |-> sid, kind |-> "create",
                   value |-> Some(sid), calls |-> CallCount]
        /\ UNCHANGED <<clock, runner, worker, stops, view>>

CallMutator(ids, calls, maxCalls) ==
    \E sid \in ids, c \in calls :
        /\ CallCount < maxCalls
        /\ sessions' = ApplyMutator(sessions, clock, sid, c)
        /\ ret' = [op |-> c.op, sid |-> sid, kind |-> "mutator", value |-> None,
                   calls |-> CallCount + 1]
        /\ UNCHANGED <<clock, runner, worker, stops, view>>

CallView(ids, calls, maxCalls) ==
    \E sid \in ids, c \in calls :
        /\ CallCount < maxCalls
        /\ ret' = [op |-> c.op, sid |-> sid, kind |-> "view",
                   value |-> ApplyView(sessions, sid, c), calls |-> CallCount + 1]
        /\ UNCHANGED <<sessions, clock, runner, worker, stops, view>>

(***************************************************************************)
(* SpecCalls: every mutator and every view, on a known and an unknown id.  *)
(***************************************************************************)
CallIds == SessionIds \cup {"unknown"}

NextCalls ==
    \/ CallCreateSession(SessionIds)
    \/ CallMutator(CallIds, MutatorCalls, MaxCalls)
    \/ CallView(CallIds, ViewCalls, MaxCalls)

SpecCalls == Init /\ [][NextCalls]_vars

(***************************************************************************)
(* SpecCases: any sequence of initialize_cases, set_current_case and       *)
(* set_case_result on one session.                                         *)
(***************************************************************************)
NextCases ==
    \/ CallCreateSession(SessionIds)
    \/ CallMutator(SessionIds, CaseCalls, MaxCaseCalls)

SpecCases == Init /\ [][NextCases]_vars

(***************************************************************************)
(* SpecLogs: entries of several levels appended to the log of one session, *)
(* and get_logs_view called with a level and a limit.                      *)
(***************************************************************************)
MaxLogCalls == 4

LogCalls ==
    {[op |-> "append_log", args |-> <<level, <<message>>>>] :
        level \in {"info", "error"}, message \in {"m1", "m2"}}

\* StateManager.get_logs_view(session_id, level=level, limit=limit)
CallLogsView(ids, maxCalls) ==
    \E sid \in ids :
    \E level \in {None, Some(""), Some("info"), Some("error")} :
    \E limit \in {None, Some(0 - 1), Some(0), Some(1), Some(2)} :
        /\ CallCount < maxCalls
        /\ ret' = [op |-> "get_logs_view", sid |-> sid, kind |-> "logs_view",
                   level |-> level, limit |-> limit,
                   value |-> get_logs_view(sessions, sid, level, limit),
                   calls |-> CallCount + 1]
        /\ UNCHANGED <<sessions, clock, runner, worker, stops, view>>

NextLogs ==
    \/ CallCreateSession(SessionIds)
    \/ CallMutator(SessionIds, LogCalls, MaxLogCalls)
    \/ CallLogsView(SessionIds, MaxLogCalls)

SpecLogs == Init /\ [][NextLogs]_vars

(***************************************************************************)
(* SpecFull: one caller fills the log of a session with append_log up to   *)
(* MAX_LOG_LINES entries, and then calls the mutators that append to it.   *)
(***************************************************************************)
MaxFullCalls == 1

\* the mutators that append an entry to the log
FullCalls ==
    {c \in MutatorCalls :
        c.op \in {"append_log", "mark_started", "mark_finished", "initialize_cases"}}

\* StateManager.append_log(sid, "debug", "fill"), before any other call
FillLog(ids) ==
    \E sid \in ids \cap DOMAIN sessions :
        /\ CallCount = 0
        /\ Len(sessions[sid].logs) < MAX_LOG_LINES
        /\ sessions' = append_log(sessions, clock, sid, "debug", <<"fill">>)
        /\ ret' = [op |-> "append_log", sid |-> sid, kind |-> "fill", value |-> None,
                   calls |-> 0]
        /\ UNCHANGED <<clock, runner, worker, stops, view>>

NextFull ==
    \/ CallCreateSession(SessionIds)
    \/ FillLog(SessionIds)
    \/ CallMutator(SessionIds, FullCalls, MaxFullCalls)

SpecFull == Init /\ [][NextFull]_vars

(***************************************************************************)
(* StateManager.get_progress_view called by a poller.  get returns the     *)
(* live SessionState under the lock; total_steps and current_step are then *)
(* read from it, and the percent property reads total_steps, current_step  *)
(* and total_steps again, with no lock held.                               *)
(***************************************************************************)
\* Progress.percent from its three reads, in hundredths
PercentRead(guard_total, current_step, total_steps) ==
    IF guard_total <= 0 THEN 0
    ELSE LET d == Max(1, total_steps)
             n == current_step * 10000
             q == n \div d
             r == n % d
         IN  IF 2 * r > d \/ (2 * r = d /\ q % 2 = 1) THEN q + 1 ELSE q

\* s = self.get(session_id), then "total_steps": s.progress.total_steps
ProgressViewGet(sid) ==
    /\ view.pc \in {"idle", "returned"}
    /\ view.calls < MaxViews
    /\ sid \in DOMAIN sessions
    /\ view' = [pc |-> "reading", calls |-> view.calls + 1, sid |-> sid, next |-> 2,
                guard_total |-> 0, percent_step |-> 0,
                response |-> [total_steps |-> sessions[sid].progress.total_steps,
                              current_step |-> 0, percent |-> 0]]
    /\ UNCHANGED <<sessions, clock, runner, worker, stops, ret>>

\* the next read of the live progress; after the last one the call returns
ProgressViewRead ==
    /\ view.pc = "reading"
    /\ LET p == sessions[view.sid].progress
       IN  view' =
             CASE view.next = 2 ->
                    [view EXCEPT !.response.current_step = p.current_step, !.next = 3]
               [] view.next = 3 ->
                    IF p.total_steps <= 0
                    THEN [view EXCEPT !.response.percent = PercentRead(p.total_steps, 0, 0),
                                      !.guard_total = p.total_steps, !.pc = "returned"]
                    ELSE [view EXCEPT !.guard_total = p.total_steps, !.next = 4]
               [] view.next = 4 ->
                    [view EXCEPT !.percent_step = p.current_step, !.next = 5]
               [] view.next = 5 ->
                    [view EXCEPT !.response.percent =
                                     PercentRead(view.guard_total, view.percent_step,
                                                 p.total_steps),
                                 !.pc = "returned"]
    /\ UNCHANGED <<sessions, clock, runner, worker, stops, ret>>

(***************************************************************************)
(* SpecProgress: one session and a poller of its progress view.            *)
(***************************************************************************)
NextProgress ==
    \/ CreateSession(SessionIds)
    \/ \E sid \in SessionIds : StartStep(sid)
    \/ \E sid \in SessionIds : WorkerStep(sid, MaxViewLines, StopLines)
    \/ \E sid \in SessionIds : ProgressViewGet(sid)
    \/ ProgressViewRead

SpecProgress == Init /\ [][NextProgress]_vars

(***************************************************************************)
(* SpecMulti: a store with several sessions; every mutator on each of      *)
(* them and on an id that is not in the store.                             *)
(***************************************************************************)
MaxMultiCalls == 2

\* uuid4 values: create_session draws one that is not in the store
MultiIds == {"s1", "s2"}

NextMulti ==
    \/ CallCreateSession(MultiIds)
    \/ CallMutator(MultiIds \cup {"unknown"}, MutatorCalls, MaxMultiCalls)

SpecMulti == Init /\ [][NextMulti]_vars

(***************************************************************************)
(* SpecClassify: a process whose lines match several patterns at once.     *)
(***************************************************************************)
MaxClassifyLines == 3

ClassifyLines ==
    {<<"S", "t", "a", "r", "t", "i", "n", "g", " ", "t", "e", "s", "t", ":", " ", "p", "a", "s", "s", "\n">>,
     <<"S", "T", "A", "R", "T", " ", "/", " ", "A", " ", "|", " ", "F", "A", "I", "L", "\n">>,
     <<"p", "a", "s", "s", " ", "|", " ", "F", "A", "I", "L", "\n">>,
     <<"f", "a", "i", "l", " ", "s", "k", "i", "p", "\n">>,
     <<"s", "k", "i", "p", "\n">>,
     <<"h", "e", "l", "l", "o", "\n">>}

NextClassify ==
    \/ CreateSession(SessionIds)
    \/ \E sid \in SessionIds : StartStep(sid)
    \/ \E sid \in SessionIds : WorkerStep(sid, MaxClassifyLines, ClassifyLines)

SpecClassify == Init /\ [][NextClassify]_vars

(***************************************************************************)
(* The loop body of _run_worker for one non-blank line, as one function of *)
(* the store and the locals of the worker (lines 200-258).                 *)
(***************************************************************************)
ApplyLine(st, sid, line_str) ==
    LET ss == st.ss
        w == st.w
    IN  IF IsStartLine(line_str)
        THEN LET name == StartName(line_str)
                 total_steps == w.total_steps + 1
                 ss1 == set_current_case(ss, clock, sid, name, None)
             IN  [ss |-> set_progress(ss1, clock, sid, w.current_step, Max(total_steps, 1)),
                  w |-> [w EXCEPT !.current_case_name = name, !.total_steps = total_steps]]
        ELSE LET result_detected == ResultDetected(line_str)
                 totals == TotalsAfter(w.totals, line_str)
             IN  IF ~IsNone(result_detected) /\ TruthyStr(w.current_case_name)
                 THEN LET ss1 == set_case_result(ss, clock, sid, w.current_case_name[1],
                                                 result_detected[1])
                          current_step == StepAfterResult(w.current_step, w.total_steps)
                      IN  [ss |-> set_progress(ss1, clock, sid, current_step,
                                               ProgressTotal(current_step, w.total_steps)),
                           w |-> [w EXCEPT !.totals = totals,
                                           !.current_step = current_step,
                                           !.current_case_name = None]]
                 ELSE [ss |-> set_progress(ss, clock, sid, w.current_step,
                                           ProgressTotal(w.current_step, w.total_steps)),
                       w |-> [w EXCEPT !.totals = totals]]

\* the loop over the lines, first to last
RECURSIVE ApplyLines(_, _, _)
ApplyLines(st, sid, lines) ==
    IF lines = <<>> THEN st
    ELSE ApplyLines(ApplyLine(st, sid, Head(lines)), sid, Tail(lines))

(***************************************************************************)
(* SpecTwo: two sessions in one store, each with its own start and its own *)
(* worker, their steps interleaved in any order.                           *)
(***************************************************************************)
MaxTwoLines == 2

NextTwo ==
    \/ CreateSession(MultiIds)
    \/ \E sid \in MultiIds : StartStep(sid)
    \/ \E sid \in MultiIds : WorkerStep(sid, MaxTwoLines, StopLines)

SpecTwo == Init /\ [][NextTwo]_vars

(***************************************************************************)
(* Properties.                                                             *)
(***************************************************************************)
Terminal == {"COMPLETED", "FAILED"}

\* the number of log entries of a level
CountLevel(logs, level) == Cardinality({i \in 1..Len(logs) : logs[i].level = level})

\* what every state of the store satisfies: a COMPLETED or FAILED session has
\* its finished_at set, and its success flag is true exactly when COMPLETED
StatsConsistent(v) ==
    v.status \in Terminal => (~IsNone(v.finished_at) /\ v.success = (v.status = "COMPLETED"))

\* C1: the values a stats view returns belong to one state of the store: a
\* view that reports COMPLETED or FAILED reports the finished_at and success
\* that mark_finished set with it, never the values from before the finish.
C1_StatsViewIsSnapshot ==
    view.pc = "returned" => StatsConsistent(view.response)


\* the worker is at a result line while it tracks no current case
UntrackedResult(w) ==
    /\ w.pc = "classify"
    /\ ~IsStartLine(w.line_str)
    /\ ~IsNone(ResultDetected(w.line_str))
    /\ ~TruthyStr(w.current_case_name)

\* C2: a line that matches a pass/fail/skip pattern while no current case is
\* tracked changes no case_status entry and none of the worker's
\* passed/failed/skipped counters.
C2_UntrackedResultChangesNothing ==
    [][\A sid \in DOMAIN worker :
          (UntrackedResult(worker[sid]) /\ worker'[sid].pc # "classify")
          => /\ worker'[sid].totals = worker[sid].totals
             /\ sessions'[sid].case_status = sessions[sid].case_status]_vars

\* C3: a session whose status is RUNNING has ui_lock true.
C3_RunningImpliesLocked ==
    \A sid \in DOMAIN sessions :
        sessions[sid].status = "RUNNING" => sessions[sid].ui_lock

C3_Witness ==
    \E sid \in DOMAIN worker :
        /\ worker[sid].pc = "read"
        /\ sessions[sid].status = "RUNNING"
        /\ sessions[sid].ui_lock

\* C4 as claimed: a session whose status is PENDING, COMPLETED or FAILED has
\* ui_lock false, in every store state, also between the store calls of start.
C4_NotRunningImpliesUnlocked ==
    \A sid \in DOMAIN sessions :
        sessions[sid].status \in {"PENDING", "COMPLETED", "FAILED"} => ~sessions[sid].ui_lock

\* C4 as amended: a COMPLETED or FAILED session has ui_lock false, and a
\* PENDING session has ui_lock false except between the set_ui_lock(True) and
\* the mark_started of RobotRunner.start.
C4_UnlockedOutsideStartWindow ==
    \A sid \in DOMAIN sessions :
        /\ sessions[sid].status \in Terminal => ~sessions[sid].ui_lock
        /\ (sessions[sid].status = "PENDING" /\ sessions[sid].ui_lock)
           => (sid \in DOMAIN runner /\ runner[sid].pc = "mark_started")

C4_Witness ==
    \E sid \in DOMAIN worker :
        /\ worker[sid].pc = "done"
        /\ sessions[sid].status \in Terminal
        /\ ~sessions[sid].ui_lock

\* the cases of a session that hold TESTING
Testing(s) == {n \in DOMAIN s.case_status : s.case_status[n] = CASE_TESTING}

\* C5: at most one entry of case_status holds TESTING.
C5_AtMostOneTesting ==
    \A sid \in DOMAIN sessions : Cardinality(Testing(sessions[sid])) <= 1

\* B became the current case while A was TESTING
C5_Witness ==
    \E sid \in DOMAIN sessions :
        /\ ret.op = "set_current_case"
        /\ sessions[sid].current_case_name = Some(CaseB)
        /\ CaseA \in DOMAIN sessions[sid].case_status
        /\ sessions[sid].case_status[CaseA] = CASE_SCHEDULE
        /\ sessions[sid].case_status[CaseB] = CASE_TESTING

\* neither start nor the worker of the session has a step left
Settled(sid) ==
    \/ runner[sid].pc = "raised"
    \/ (sid \in DOMAIN worker /\ worker[sid].pc = "done")

\* C6: every session on which start was called ends COMPLETED or FAILED, also
\* when start fails after it marked the session RUNNING: once start and the
\* worker have no step left, the status is terminal.
C6_StartedSessionsFinish ==
    \A sid \in DOMAIN runner :
        Settled(sid) => sessions[sid].status \in Terminal

\* C7: after a spawn failure the log has exactly one ERROR entry, no line was
\* processed, and the session is FAILED with success false, passed = failed =
\* skipped = 0 and ui_lock false.
C7_SpawnFailure ==
    \A sid \in DOMAIN worker :
        (worker[sid].pc = "done" /\ worker[sid].spawn # "ok")
        => /\ CountLevel(sessions[sid].logs, "ERROR") = 1
           /\ worker[sid].nread = 0
           /\ sessions[sid].status = "FAILED"
           /\ sessions[sid].stats.success = FALSE
           /\ sessions[sid].stats.passed = 0
           /\ sessions[sid].stats.failed = 0
           /\ sessions[sid].stats.skipped = 0
           /\ ~sessions[sid].ui_lock

C7_Witness ==
    \E sid \in DOMAIN worker :
        /\ worker[sid].pc = "done"
        /\ worker[sid].spawn = "FileNotFoundError"
        /\ sessions[sid].status = "FAILED"

\* C8: for a spawned process the final status is COMPLETED exactly when the
\* exit code is 0 and FAILED otherwise, whatever the parsed counts are.
C8_ExitCodeDecides ==
    \A sid \in DOMAIN worker :
        (worker[sid].pc = "done" /\ worker[sid].spawn = "ok")
        => /\ sessions[sid].status = "COMPLETED" <=> worker[sid].returncode = Some(0)
           /\ sessions[sid].status = "FAILED" <=> worker[sid].returncode # Some(0)
           /\ sessions[sid].stats.success = (worker[sid].returncode = Some(0))
           /\ ~sessions[sid].ui_lock

C8_Witness ==
    \E sid \in DOMAIN worker :
        /\ worker[sid].pc = "done"
        /\ worker[sid].returncode = Some(0)
        /\ sessions[sid].stats.failed = MaxLines
        /\ sessions[sid].status = "COMPLETED"
        /\ ~sessions[sid].ui_lock

StopEntry(now) == LogLine(now, "WARN", <<"Stop requested (not yet implemented).">>)

\* C9: request_stop only appends one WARN entry to the log of the session and
\* sets updated_at; it changes no other field of the store and nothing of the
\* worker, and the finished session has the status of the exit code and the
\* totals of the worker, as without the call.
C9_StopOnlyLogs ==
    /\ [][stops' # stops =>
            /\ \E sid \in DOMAIN sessions :
                 sessions' = [sessions EXCEPT
                                 ![sid].logs = BoundLogs(Append(@, StopEntry(clock))),
                                 ![sid].updated_at = clock]
            /\ worker' = worker
            /\ runner' = runner]_vars
    /\ [](\A sid \in DOMAIN worker :
            (worker[sid].pc = "done" /\ worker[sid].spawn = "ok")
            => /\ sessions[sid].status = FinishedStatus(worker[sid].returncode = Some(0))
               /\ sessions[sid].stats.passed = worker[sid].totals.passed
               /\ sessions[sid].stats.failed = worker[sid].totals.failed
               /\ sessions[sid].stats.skipped = worker[sid].totals.skipped)

\* a stop requested while the worker was streaming, the session now finished
C9_Witness ==
    \E sid \in DOMAIN worker :
        /\ worker[sid].pc = "done"
        /\ worker[sid].spawn = "ok"
        /\ stops = 1
        /\ \E i \in 1..Len(sessions[sid].logs) :
             /\ sessions[sid].logs[i].level = "WARN"
             /\ i > 1
             /\ sessions[sid].logs[i - 1].message = <<"Robot process started.">>
             /\ sessions[sid].updated_at > sessions[sid].logs[i].timestamp

\* C10: a mutator called with an id that is not in the store leaves the whole
\* store unchanged, and a view called with such an id returns None.
C10_UnknownIdIsNoOp ==
    [][(CallCount' # CallCount /\ ret'.sid \notin DOMAIN sessions)
       => /\ sessions' = sessions
          /\ IsNone(ret'.value)]_vars

\* a call with an unknown id was made on a store that holds a session
C10_Witness ==
    /\ ret.op = "mark_finished"
    /\ ret.sid \notin DOMAIN sessions
    /\ \E sid \in DOMAIN sessions : sessions[sid].status = "RUNNING"

\* the n most recent entries of a list, oldest first
MostRecent(logs, n) ==
    IF n >= Len(logs) THEN logs ELSE SubSeq(logs, Len(logs) - n + 1, Len(logs))

\* a logs view was returned for a level and a limit >= 0
LeveledLogsView ==
    /\ ret.op = "get_logs_view"
    /\ ret.kind = "logs_view"
    /\ ret.sid \in DOMAIN sessions
    /\ Len(ret.level) = 1
    /\ ret.level[1] # ""
    /\ ~IsNone(ret.limit)
    /\ ret.limit[1] >= 0

\* C11: get_logs_view(level=L, limit=N) with N >= 0 returns at most N entries,
\* all of level L, oldest first, and they are the N most recent entries of
\* level L in the log (the filter is applied before the trim).
C11_LogsViewFilterThenTrim ==
    LeveledLogsView =>
        LET matches == FilterLevel(sessions[ret.sid].logs, UpperLevel(ret.level[1]))
            got == ret.value[1]
        IN  /\ Len(got) <= ret.limit[1]
            /\ \A i \in 1..Len(got) : got[i].level = UpperLevel(ret.level[1])
            /\ got = MostRecent(matches, ret.limit[1])

\* C12: the log of a session never has more than MAX_LOG_LINES entries, and a
\* call that appends to the log (append_log itself, or the append inside
\* create_session, mark_started, mark_finished or initialize_cases) adds the
\* new entry at the end and, when the log was full, drops exactly its oldest
\* entry, keeping the order of the others.
C12_LogBoundedOldestEvicted ==
    /\ [](\A sid \in DOMAIN sessions : Len(sessions[sid].logs) <= MAX_LOG_LINES)
    /\ [][\A sid \in DOMAIN sessions \cap DOMAIN sessions' :
            (\/ sessions'[sid].logs # sessions[sid].logs
             \/ (CallCount' # CallCount /\ ret'.sid = sid))
            => LET old == sessions[sid].logs
                   new == sessions'[sid].logs
               IN  /\ Len(new) >= 1
                   /\ new = (IF Len(old) = MAX_LOG_LINES THEN Tail(old) ELSE old)
                            \o <<new[Len(new)]>>]_vars

\* mark_finished appended to a full log, whose oldest entry was evicted
C12_Witness ==
    \E sid \in DOMAIN sessions :
        /\ ret.op = "mark_finished"
        /\ Len(sessions[sid].logs) = MAX_LOG_LINES
        /\ sessions[sid].logs[1].message = <<"fill">>
        /\ sessions[sid].status \in Terminal

\* C13: while a worker drives a session, no step of the system lowers the
\* stored progress.total_steps of the session, whatever Start, Result and
\* Plain lines the process writes.
C13_TotalStepsNeverDecrease ==
    [][\A sid \in DOMAIN sessions \cap DOMAIN sessions' :
          sessions'[sid].progress.total_steps >= sessions[sid].progress.total_steps]_vars

\* two Start lines raised the stored total to 2, then a Plain line was handled
C13_Witness ==
    \E sid \in DOMAIN worker :
        /\ worker[sid].pc = "read"
        /\ worker[sid].nread = 3
        /\ worker[sid].line_str = <<"h", "e", "l", "l", "o">>
        /\ sessions[sid].progress.total_steps = 2

\* C14: the stored progress of a session always satisfies
\* 0 <= current_step <= total_steps, also after a Start line without a case
\* name and after a Result line while no case is tracked.
C14_StepWithinTotal ==
    \A sid \in DOMAIN sessions :
        /\ 0 <= sessions[sid].progress.current_step
        /\ sessions[sid].progress.current_step <= sessions[sid].progress.total_steps

\* a Start line without a name, then a fail line while no case was tracked
C14_Witness ==
    \E sid \in DOMAIN worker :
        /\ worker[sid].pc = "read"
        /\ worker[sid].nread = 2
        /\ IsNone(worker[sid].current_case_name)
        /\ worker[sid].totals.failed = 1
        /\ sessions[sid].progress.current_step = 0
        /\ sessions[sid].progress.total_steps = 1

\* C15: in every progress view returned to a poller, also when the poll
\* interleaves with the updates of the worker, percent is 0 when the
\* total_steps of the view is <= 0 and otherwise current_step / total_steps *
\* 100 rounded to two decimals, computed from the current_step and the
\* total_steps of that same view, and lies between 0 and 100.
C15_PercentMatchesView ==
    view.pc = "returned"
    => /\ view.response.percent =
              Percent([total_steps |-> view.response.total_steps,
                       current_step |-> view.response.current_step])
       /\ 0 <= view.response.percent
       /\ view.response.percent <= 10000

CaseStates == {CASE_NOTRUN, CASE_SCHEDULE, CASE_TESTING, CASE_PASS, CASE_FAIL, CASE_SKIP}

\* C16: every value of the case_status map of every session is one of NOTRUN,
\* SCHEDULE, TESTING, PASS, FAIL, SKIP, and set_case_result called with an
\* outcome outside {PASS, FAIL, SKIP} returns the store it was called on.
C16_CaseStatesClosed ==
    /\ \A sid \in DOMAIN sessions :
         \A name \in DOMAIN sessions[sid].case_status :
             sessions[sid].case_status[name] \in CaseStates
    /\ \A sid \in CallIds, name \in {CaseA, CaseB} :
         \A outcome \in {"ERROR", CASE_TESTING, CASE_SCHEDULE, CASE_NOTRUN} :
             set_case_result(sessions, clock, sid, name, outcome) = sessions

\* the second call was set_case_result with an outcome that is no result: A is
\* still TESTING and current, and no other case entered the map
C16_Witness ==
    \E sid \in DOMAIN sessions :
        /\ ret.op = "set_case_result"
        /\ ret.calls = 2
        /\ sessions[sid].case_status = (CaseA :> CASE_TESTING)
        /\ sessions[sid].current_case_name = Some(CaseA)

\* C17: create_session adds one session, under an id that no session of the
\* store has, with status PENDING, ui_lock false, an empty case_status, no
\* current case and progress 0/0, and leaves the other sessions as they are;
\* every session keeps its session_id, which is its key in the store, and no
\* step removes a session.
C17_CreateOnceNeverRemoved ==
    /\ [](\A sid \in DOMAIN sessions : sessions[sid].session_id = sid)
    /\ [][/\ DOMAIN sessions \subseteq DOMAIN sessions'
          /\ \A sid \in DOMAIN sessions :
               sessions'[sid].session_id = sessions[sid].session_id
          /\ \A sid \in DOMAIN sessions' \ DOMAIN sessions :
               /\ ret'.op = "create_session"
               /\ DOMAIN sessions' = DOMAIN sessions \cup {sid}
               /\ \A other \in DOMAIN sessions : sessions'[other] = sessions[other]
               /\ sessions'[sid].status = "PENDING"
               /\ ~sessions'[sid].ui_lock
               /\ sessions'[sid].case_status = EmptyMap
               /\ IsNone(sessions'[sid].current_case_name)
               /\ sessions'[sid].progress = [total_steps |-> 0, current_step |-> 0]]_vars

\* a second session was created next to one that had already finished
C17_Witness ==
    /\ ret.op = "create_session"
    /\ DOMAIN sessions = MultiIds
    /\ sessions[ret.sid].status = "PENDING"
    /\ \E other \in DOMAIN sessions \ {ret.sid} :
         /\ sessions[other].status = "COMPLETED"
         /\ sessions[other].progress.total_steps = 2

\* the current case of s holds TESTING and is not name
OtherCaseTesting(s, name) ==
    /\ TruthyStr(s.current_case_name)
    /\ s.current_case_name[1] # name
    /\ s.current_case_name[1] \in DOMAIN s.case_status
    /\ s.case_status[s.current_case_name[1]] = CASE_TESTING

\* C18: set_current_case(name) with a non-empty name, called while another
\* case is the current case and holds TESTING, sets that case to SCHEDULE and
\* name to TESTING whatever name held before (nothing, SCHEDULE, PASS, FAIL or
\* SKIP), changes no other entry and makes name the current case; and a Start
\* line for a case handled while another case is TESTING does exactly that, so
\* Start A then Start B leaves A SCHEDULE and B TESTING.
C18_StartDemotesPrevious ==
    /\ [](\A sid \in DOMAIN sessions : \A name \in {CaseA, CaseB} :
            OtherCaseTesting(sessions[sid], name)
            => LET s == sessions[sid]
                   after == set_current_case(sessions, clock, sid, Some(name), None)[sid]
               IN  /\ after.case_status =
                          Put(Put(s.case_status, s.current_case_name[1], CASE_SCHEDULE),
                              name, CASE_TESTING)
                   /\ after.current_case_name = Some(name))
    /\ [][\A sid \in DOMAIN worker :
            (/\ worker[sid].pc = "classify"
             /\ worker'[sid].pc = "start_progress"
             /\ TruthyStr(worker'[sid].current_case_name)
             /\ OtherCaseTesting(sessions[sid], worker'[sid].current_case_name[1]))
            => LET prev == sessions[sid].current_case_name[1]
                   name == worker'[sid].current_case_name[1]
               IN  /\ sessions'[sid].case_status[prev] = CASE_SCHEDULE
                   /\ sessions'[sid].case_status[name] = CASE_TESTING
                   /\ sessions'[sid].current_case_name = Some(name)]_vars

\* the worker handled a Start line for A and then a Start line for B
C18_Witness ==
    \E sid \in DOMAIN worker :
        /\ worker[sid].pc = "start_progress"
        /\ worker[sid].nread = 2
        /\ worker[sid].current_case_name = Some(CaseB)
        /\ sessions[sid].current_case_name = Some(CaseB)
        /\ sessions[sid].case_status = (CaseA :> CASE_SCHEDULE) @@ (CaseB :> CASE_TESTING)

\* the worker is at a Result line while it tracks the case of a Start line
TrackedResult(w) ==
    /\ w.pc = "classify"
    /\ ~IsStartLine(w.line_str)
    /\ ~IsNone(ResultDetected(w.line_str))
    /\ TruthyStr(w.current_case_name)

\* the counters with one more for the outcome
CountOutcome(totals, outcome) ==
    [passed |-> totals.passed + (IF outcome = CASE_PASS THEN 1 ELSE 0),
     failed |-> totals.failed + (IF outcome = CASE_FAIL THEN 1 ELSE 0),
     skipped |-> totals.skipped + (IF outcome = CASE_SKIP THEN 1 ELSE 0)]

\* C19: a Result line with outcome O, read while the worker tracks the case C
\* of an earlier Start line (Plain lines may lie in between), sets
\* case_status[C] to O, clears the current-case pointer, adds 1 to the counter
\* of O and to no other counter, and adds exactly 1 to current_step, in the
\* worker and then in the stored progress; a Result line read while no case
\* is tracked changes no case_status entry and not the current-case pointer.
C19_ResultSettlesCase ==
    [][\A sid \in DOMAIN worker :
          LET w == worker[sid]
              s == sessions[sid]
          IN  /\ (TrackedResult(w) /\ worker'[sid].pc # "classify")
                 => /\ sessions'[sid].case_status =
                          Put(s.case_status, w.current_case_name[1],
                              ResultDetected(w.line_str)[1])
                    /\ IsNone(sessions'[sid].current_case_name)
                    /\ worker'[sid].totals =
                          CountOutcome(w.totals, ResultDetected(w.line_str)[1])
                    /\ worker'[sid].current_step = w.current_step + 1
                    /\ worker'[sid].pc = "result_progress"
              /\ (w.pc = "result_progress" /\ worker'[sid].pc # "result_progress")
                 => /\ sessions'[sid].progress.current_step = s.progress.current_step + 1
                    /\ sessions'[sid].progress.current_step = w.current_step
                    /\ IsNone(worker'[sid].current_case_name)
              /\ (UntrackedResult(w) /\ worker'[sid].pc # "classify")
                 => /\ sessions'[sid].case_status = s.case_status
                    /\ sessions'[sid].current_case_name = s.current_case_name]_vars

\* Start A, a Plain line, then the PASS line of A
C19_Witness ==
    \E sid \in DOMAIN worker :
        /\ worker[sid].pc = "read"
        /\ worker[sid].nread = 3
        /\ \E i \in 1..Len(sessions[sid].logs) :
             sessions[sid].logs[i].message = <<"h", "e", "l", "l", "o">>
        /\ sessions[sid].case_status = (CaseA :> CASE_PASS)
        /\ IsNone(sessions[sid].current_case_name)
        /\ IsNone(worker[sid].current_case_name)
        /\ worker[sid].totals = [passed |-> 1, failed |-> 0, skipped |-> 0]
        /\ sessions[sid].progress = [total_steps |-> 1, current_step |-> 1]

Results == {CASE_PASS, CASE_FAIL, CASE_SKIP}

\* the result patterns a line matches
MatchedResults(line_str) ==
    {o \in Results :
        MatchesWord(Lower(line_str),
                    IF o = CASE_PASS THEN WordPass
                    ELSE IF o = CASE_FAIL THEN WordFail ELSE WordSkip)}

\* pass before fail before skip
FirstResult(matched) ==
    IF CASE_PASS \in matched THEN CASE_PASS
    ELSE IF CASE_FAIL \in matched THEN CASE_FAIL ELSE CASE_SKIP

\* no case has a result in cs2 that it did not have in cs1
NoNewResult(cs1, cs2) ==
    \A n \in DOMAIN cs2 :
        cs2[n] \in Results => (n \in DOMAIN cs1 /\ cs1[n] = cs2[n])

\* C20: a line is handled in exactly one way.  A line that matches a Start
\* pattern is handled as a Start line only: it changes no counter, gives no
\* case a result and leaves current_step as it is, also when it matches
\* pass, fail or skip.  A line that matches no Start pattern and one or more
\* result patterns resolves as pass before fail before skip: with a tracked
\* case that outcome, and no other, is stored and counted.  A line that
\* matches neither is a Plain line and changes no counter, case or step.
C20_OneClassPerLine ==
    [][\A sid \in DOMAIN worker :
          LET w == worker[sid]
              s == sessions[sid]
              matched == MatchedResults(w.line_str)
          IN  /\ (w.pc = "classify" /\ worker'[sid].pc # "classify")
                 => IF IsStartLine(w.line_str)
                    THEN /\ worker'[sid].pc = "start_progress"
                         /\ worker'[sid].totals = w.totals
                         /\ worker'[sid].current_step = w.current_step
                         /\ sessions'[sid].progress.current_step = s.progress.current_step
                         /\ NoNewResult(s.case_status, sessions'[sid].case_status)
                    ELSE IF matched # {} /\ TruthyStr(w.current_case_name)
                    THEN /\ worker'[sid].pc = "result_progress"
                         /\ sessions'[sid].case_status =
                               Put(s.case_status, w.current_case_name[1], FirstResult(matched))
                         /\ worker'[sid].totals = CountOutcome(w.totals, FirstResult(matched))
                    ELSE /\ worker'[sid].pc = "read"
                         /\ sessions'[sid].case_status = s.case_status
                         /\ sessions'[sid].progress.current_step = s.progress.current_step
                         /\ matched = {} => worker'[sid].totals = w.totals
              /\ (w.pc = "start_progress" /\ worker'[sid].pc # "start_progress")
                 => /\ worker'[sid].totals = w.totals
                    /\ sessions'[sid].case_status = s.case_status
                    /\ sessions'[sid].progress.current_step = s.progress.current_step]_vars

\* "Starting test: pass" counted nothing, and "pass | FAIL" gave the case PASS
C20_Witness ==
    \E sid \in DOMAIN worker :
        /\ worker[sid].pc = "read"
        /\ worker[sid].nread = 2
        /\ worker[sid].line_str = <<"p", "a", "s", "s", " ", "|", " ", "F", "A", "I", "L">>
        /\ sessions[sid].case_status = (WordPass :> CASE_PASS)
        /\ worker[sid].totals = [passed |-> 1, failed |-> 0, skipped |-> 0]
        /\ sessions[sid].progress = [total_steps |-> 1, current_step |-> 1]

\* C21: every line the worker reads from the output stream is appended to the
\* log of the session as one entry, in the step that reads it and before it
\* changes case_status, progress or a counter; no line is skipped.
C21_EveryLineLogged ==
    [][\A sid \in DOMAIN worker \cap DOMAIN worker' :
          worker'[sid].nread = worker[sid].nread + 1
          => /\ Len(sessions'[sid].logs) = Len(sessions[sid].logs) + 1
             /\ sessions'[sid].logs[Len(sessions'[sid].logs)].level = "INFO"
             /\ sessions'[sid].case_status = sessions[sid].case_status
             /\ sessions'[sid].progress = sessions[sid].progress
             /\ worker'[sid].totals = worker[sid].totals]_vars

\* C22: every Start line raises the stored total_steps by exactly 1, with or
\* without a case name in it and with or without a case that is still
\* TESTING; a Start line without a case name also clears the current-case
\* pointer and sets the case that was current and TESTING to SCHEDULE.
C22_StartAddsOneStep ==
    [][\A sid \in DOMAIN worker :
          LET w == worker[sid]
              s == sessions[sid]
          IN  /\ (w.pc = "classify" /\ IsStartLine(w.line_str) /\ worker'[sid].pc # "classify")
                 => /\ worker'[sid].pc = "start_progress"
                    /\ worker'[sid].total_steps = w.total_steps + 1
                    /\ IsNone(StartName(w.line_str))
                       => /\ IsNone(sessions'[sid].current_case_name)
                          /\ sessions'[sid].case_status =
                                (IF /\ TruthyStr(s.current_case_name)
                                    /\ s.current_case_name[1] \in DOMAIN s.case_status
                                    /\ s.case_status[s.current_case_name[1]] = CASE_TESTING
                                 THEN Put(s.case_status, s.current_case_name[1], CASE_SCHEDULE)
                                 ELSE s.case_status)
              /\ (w.pc = "start_progress" /\ worker'[sid].pc # "start_progress")
                 => sessions'[sid].progress.total_steps = s.progress.total_steps + 1]_vars

\* Start A, then a Start line without a name: A is back to SCHEDULE, no case
\* is current, and the stored total is 2
C22_Witness ==
    \E sid \in DOMAIN worker :
        /\ worker[sid].pc = "read"
        /\ worker[sid].nread = 2
        /\ worker[sid].line_str = <<"S", "t", "a", "r", "t", "i", "n", "g", " ", "t", "e", "s", "t", ":">>
        /\ IsNone(sessions[sid].current_case_name)
        /\ sessions[sid].case_status = (CaseA :> CASE_SCHEDULE)
        /\ sessions[sid].progress.total_steps = 2

\* C23: set_case_result(name, outcome) with outcome PASS, FAIL or SKIP sets
\* case_status[name] to outcome whatever name held before (nothing, SCHEDULE,
\* TESTING or an earlier result), leaves every other case as it is, clears
\* the current-case pointer and documentation when name is the current case,
\* and leaves both as they are when it is not.
C23_ResultLastWriteWins ==
    \A sid \in DOMAIN sessions : \A name \in {CaseA, CaseB} : \A outcome \in Results :
        LET s == sessions[sid]
            after == set_case_result(sessions, clock, sid, name, outcome)[sid]
        IN  /\ DOMAIN after.case_status = DOMAIN s.case_status \cup {name}
            /\ after.case_status[name] = outcome
            /\ \A other \in DOMAIN s.case_status \ {name} :
                 after.case_status[other] = s.case_status[other]
            /\ IF s.current_case_name = Some(name)
               THEN IsNone(after.current_case_name) /\ IsNone(after.current_case_doc)
               ELSE /\ after.current_case_name = s.current_case_name
                    /\ after.current_case_doc = s.current_case_doc

\* B is current with a documentation, and the second call gave A a result
C23_Witness ==
    \E sid \in DOMAIN sessions :
        /\ ret.op = "set_case_result"
        /\ ret.calls = 2
        /\ sessions[sid].case_status = (CaseA :> CASE_PASS) @@ (CaseB :> CASE_TESTING)
        /\ sessions[sid].current_case_name = Some(CaseB)
        /\ sessions[sid].current_case_doc = Some(<<"doc">>)

\* C24: after initialize_cases(id, names) the keys of case_status are exactly
\* the non-empty names given and every value is SCHEDULE, so the entries of
\* the map before the call that are not in names are gone; status, progress,
\* stats and ui_lock are as before the call.
C24_InitializeReplacesMap ==
    \A sid \in DOMAIN sessions :
    \A names \in {<<>>, <<CaseA>>, <<CaseB, CaseB>>, <<CaseA, <<>>, CaseB>>} :
        LET s == sessions[sid]
            after == initialize_cases(sessions, clock, sid, names)[sid]
        IN  /\ DOMAIN after.case_status =
                  {names[i] : i \in 1..Len(names)} \ {<<>>}
            /\ \A n \in DOMAIN after.case_status : after.case_status[n] = CASE_SCHEDULE
            /\ after.status = s.status
            /\ after.progress = s.progress
            /\ after.stats = s.stats
            /\ after.ui_lock = s.ui_lock

\* initialize_cases called on a session that had finished with one case passed
C24_Witness ==
    \E sid \in DOMAIN sessions :
        /\ ret.op = "initialize_cases"
        /\ ret.sid = sid
        /\ sessions[sid].status = "COMPLETED"
        /\ sessions[sid].stats.passed = 1
        /\ sessions[sid].case_status = (CaseA :> CASE_SCHEDULE)

\* the fields of stats that mark_finished writes
Outcome(stats) ==
    <<stats.success, stats.passed, stats.failed, stats.skipped, stats.duration_seconds>>

\* C25: while a session is PENDING or RUNNING its stored stats have success
\* false, passed = failed = skipped = 0 and duration 0, whatever the worker
\* has counted; these fields change only in the mark_finished step that ends
\* the worker (after the stream or after a spawn failure), which also makes
\* the status COMPLETED or FAILED, and the counters are then the totals of
\* the worker.
C25_StatsOnlyAtFinish ==
    /\ [](\A sid \in DOMAIN sessions :
            sessions[sid].status \in {"PENDING", "RUNNING"}
            => Outcome(sessions[sid].stats) = <<FALSE, 0, 0, 0, 0>>)
    /\ [][\A sid \in DOMAIN sessions \cap DOMAIN sessions' :
            Outcome(sessions'[sid].stats) # Outcome(sessions[sid].stats)
            => /\ sid \in DOMAIN worker
               /\ worker[sid].pc # "done"
               /\ worker'[sid].pc = "done"
               /\ sessions[sid].status \notin Terminal
               /\ sessions'[sid].status \in Terminal
               /\ sessions'[sid].stats.passed = worker[sid].totals.passed
               /\ sessions'[sid].stats.failed = worker[sid].totals.failed
               /\ sessions'[sid].stats.skipped = worker[sid].totals.skipped]_vars

\* the worker has counted a passed case, and the running session shows none
C25_Witness ==
    \E sid \in DOMAIN worker :
        /\ sessions[sid].status = "RUNNING"
        /\ worker[sid].totals.passed = 1
        /\ sessions[sid].case_status = (CaseA :> CASE_PASS)
        /\ sessions[sid].stats.passed = 0
        /\ clock = MaxClock

\* the messages of the log entries behind "Robot process started.", oldest first
LinesLogged(logs) ==
    LET i == CHOOSE k \in 1..Len(logs) : logs[k].message = <<"Robot process started.">>
    IN  [j \in 1..(Len(logs) - i) |-> logs[i + j].message]

\* the store and the locals of the worker when the stream opens: the cases
\* seeded by the run request, no current case, progress and counters at 0
StreamStart(sid) ==
    [ss |-> [sessions EXCEPT
                ![sid].case_status =
                    IF TruthyList(runner[sid].req.test_cases)
                    THEN ScheduledCases(runner[sid].req.test_cases[1]) ELSE EmptyMap,
                ![sid].current_case_name = None,
                ![sid].progress = Progress],
     w |-> [totals |-> WorkerFrame.totals, total_steps |-> 0, current_step |-> 0,
            current_case_name |-> None]]

\* C26: the lines of one session take effect in the order they arrive: a line
\* is logged behind the entries of the lines before it, the stored
\* current_step never decreases, and whenever the worker waits for the next
\* line, the cases, the current case, the progress and the counters are what
\* the events of the lines logged so far give when applied one after the
\* other, in the order of the log, to the state the stream opened with.
C26_LinesApplyInOrder ==
    /\ [][\A sid \in DOMAIN sessions \cap DOMAIN sessions' :
            sessions'[sid].progress.current_step >= sessions[sid].progress.current_step]_vars
    /\ [][\A sid \in DOMAIN worker \cap DOMAIN worker' :
            (worker[sid].pc = "read" /\ worker'[sid].pc = "classify")
            => sessions'[sid].logs =
                  Append(sessions[sid].logs, LogLine(clock, "INFO", worker'[sid].line_str))]_vars
    /\ [](\A sid \in DOMAIN worker :
            worker[sid].pc = "read"
            => LET st == ApplyLines(StreamStart(sid), sid, LinesLogged(sessions[sid].logs))
                   w == worker[sid]
               IN  /\ sessions[sid].case_status = st.ss[sid].case_status
                   /\ sessions[sid].current_case_name = st.ss[sid].current_case_name
                   /\ sessions[sid].progress = st.ss[sid].progress
                   /\ w.totals = st.w.totals
                   /\ w.total_steps = st.w.total_steps
                   /\ w.current_step = st.w.current_step
                   /\ w.current_case_name = st.w.current_case_name)

\* three lines were handled: Start A, the PASS line of A, Start B
C26_Witness ==
    \E sid \in DOMAIN worker :
        /\ worker[sid].pc = "read"
        /\ Len(LinesLogged(sessions[sid].logs)) = 3
        /\ sessions[sid].case_status = (CaseA :> CASE_PASS) @@ (CaseB :> CASE_TESTING)
        /\ sessions[sid].progress = [total_steps |-> 2, current_step |-> 1]

\* the worker is at a line that matches no Start and no result pattern
PlainLine(w) ==
    /\ w.pc = "classify"
    /\ ~IsStartLine(w.line_str)
    /\ MatchedResults(w.line_str) = {}

\* C27: a Plain line changes no case_status entry, no counter and not the
\* current case, and it leaves the stored current_step and total_steps as
\* they were, so one Plain line and any number of Plain lines in a row give
\* the same progress.
C27_PlainLineChangesNothing ==
    [][\A sid \in DOMAIN worker :
          (PlainLine(worker[sid]) /\ worker'[sid].pc # "classify")
          => /\ worker'[sid].pc = "read"
             /\ sessions'[sid].case_status = sessions[sid].case_status
             /\ sessions'[sid].current_case_name = sessions[sid].current_case_name
             /\ sessions'[sid].progress = sessions[sid].progress
             /\ worker'[sid].totals = worker[sid].totals
             /\ worker'[sid].current_case_name = worker[sid].current_case_name
             /\ worker'[sid].current_step = worker[sid].current_step
             /\ worker'[sid].total_steps = worker[sid].total_steps]_vars

\* Start A and then two Plain lines
C27_Witness ==
    \E sid \in DOMAIN worker :
        /\ worker[sid].pc = "read"
        /\ LinesLogged(sessions[sid].logs) =
              <<<<"S", "t", "a", "r", "t", "i", "n", "g", " ", "t", "e", "s", "t", ":", " ", "A">>,
                <<"h", "e", "l", "l", "o">>, <<"h", "e", "l", "l", "o">>>>
        /\ sessions[sid].progress = [total_steps |-> 1, current_step |-> 0]
        /\ sessions[sid].current_case_name = Some(CaseA)
        /\ sessions[sid].case_status[CaseA] = CASE_TESTING

\* C28: when a session is COMPLETED or FAILED, stats.passed + stats.failed +
\* stats.skipped equals progress.current_step, the number of results that
\* were applied to case_status, whatever lines the process wrote.
C28_CountsMatchSteps ==
    \A sid \in DOMAIN sessions :
        sessions[sid].status \in Terminal
        => sessions[sid].stats.passed + sessions[sid].stats.failed
             + sessions[sid].stats.skipped = sessions[sid].progress.current_step

\* the status changes of a session that is started once
StatusMoves ==
    {<<"PENDING", "PENDING">>, <<"PENDING", "RUNNING">>, <<"RUNNING", "RUNNING">>,
     <<"RUNNING", "COMPLETED">>, <<"RUNNING", "FAILED">>,
     <<"COMPLETED", "COMPLETED">>, <<"FAILED", "FAILED">>}

\* C29: the status of a session that is started once moves only from PENDING
\* to RUNNING and from RUNNING to COMPLETED or FAILED; it never returns to
\* PENDING, and once it is COMPLETED or FAILED the status, finished_at and
\* the stats of the session stay as they are, whatever the worker or
\* request_stop do afterwards.
C29_StatusOnlyForward ==
    [][\A sid \in DOMAIN sessions \cap DOMAIN sessions' :
          /\ <<sessions[sid].status, sessions'[sid].status>> \in StatusMoves
          /\ sessions[sid].status \in Terminal
             => /\ sessions'[sid].finished_at = sessions[sid].finished_at
                /\ sessions'[sid].stats = sessions[sid].stats]_vars

\* a stop was requested after the session had finished
C29_Witness ==
    \E sid \in DOMAIN worker :
        /\ worker[sid].pc = "done"
        /\ stops = 1
        /\ sessions[sid].status = "COMPLETED"
        /\ sessions[sid].logs[Len(sessions[sid].logs)].level = "WARN"
        /\ sessions[sid].stats.passed = 1

\* C30: mark_finished changes neither case_status nor the current-case
\* pointer: when the process exits while the case of the last Start line has
\* no result, that case is TESTING and is the current case of the COMPLETED
\* or FAILED session.
C30_FinishKeepsCases ==
    /\ [][\A sid \in DOMAIN worker \cap DOMAIN worker' :
            (worker[sid].pc = "mark_finished" /\ worker'[sid].pc = "done")
            => /\ sessions'[sid].status \in Terminal
               /\ sessions'[sid].case_status = sessions[sid].case_status
               /\ sessions'[sid].current_case_name = sessions[sid].current_case_name
               /\ sessions'[sid].current_case_doc = sessions[sid].current_case_doc]_vars
    /\ [](\A sid \in DOMAIN worker :
            (worker[sid].pc = "done" /\ TruthyStr(worker[sid].current_case_name))
            => /\ sessions[sid].status \in Terminal
               /\ sessions[sid].current_case_name = worker[sid].current_case_name
               /\ sessions[sid].case_status[worker[sid].current_case_name[1]] = CASE_TESTING)

\* the process exited with code 0 after Start A, a result for A, and Start B
C30_Witness ==
    \E sid \in DOMAIN worker :
        /\ worker[sid].pc = "done"
        /\ sessions[sid].status = "COMPLETED"
        /\ sessions[sid].current_case_name = Some(CaseB)
        /\ sessions[sid].case_status = (CaseA :> CASE_PASS) @@ (CaseB :> CASE_TESTING)

\* C31: in a session driven by one worker, with the cases seeded before the
\* start, a current-case pointer that is not None names a case whose status
\* is TESTING, every case whose status is TESTING is the one the pointer
\* names, and between two lines, and after the last, the current case name
\* of the worker is the pointer of the store.
C31_PointerIsTestingCase ==
    \A sid \in DOMAIN sessions :
        LET s == sessions[sid]
        IN  /\ ~IsNone(s.current_case_name)
               => /\ s.current_case_name[1] \in DOMAIN s.case_status
                  /\ s.case_status[s.current_case_name[1]] = CASE_TESTING
            /\ \A n \in Testing(s) : s.current_case_name = Some(n)
            /\ (sid \in DOMAIN worker
                /\ worker[sid].pc \notin {"classify", "start_progress", "result_progress"})
               => worker[sid].current_case_name = s.current_case_name

\* Start B and then Start A with A seeded: A is TESTING and current, for the
\* store and for the worker, and B is back to SCHEDULE
C31_Witness ==
    \E sid \in DOMAIN worker :
        /\ worker[sid].pc = "read"
        /\ worker[sid].nread = 2
        /\ TruthyList(runner[sid].req.test_cases)
        /\ worker[sid].current_case_name = Some(CaseA)
        /\ sessions[sid].current_case_name = Some(CaseA)
        /\ sessions[sid].case_status = (CaseA :> CASE_TESTING) @@ (CaseB :> CASE_SCHEDULE)

\* the lines in the log of a finished session: the entries between "Robot
\* process started." and the two entries written after the stream closed
LinesOfRun(logs) ==
    LET entries == LinesLogged(logs)
    IN  SubSeq(entries, 1, Len(entries) - 2)

\* C32: with several sessions whose starts and workers run interleaved on one
\* store, a step taken for one session leaves the record of every other
\* session as it is, and a session whose worker has finished has the status
\* of its own exit code and the cases, progress and counters that its own
\* lines give when applied to the state its own stream opened with.
C32_SessionsAreIsolated ==
    /\ [][\A sid \in DOMAIN sessions \cap DOMAIN sessions' :
            sessions'[sid] # sessions[sid]
            => /\ \A other \in DOMAIN sessions \ {sid} : sessions'[other] = sessions[other]
               /\ \A other \in (DOMAIN runner \cap DOMAIN runner') \ {sid} :
                    runner'[other] = runner[other]
               /\ \A other \in (DOMAIN worker \cap DOMAIN worker') \ {sid} :
                    worker'[other] = worker[other]]_vars
    /\ [](\A sid \in DOMAIN worker :
            (worker[sid].pc = "done" /\ worker[sid].spawn = "ok")
            => LET st == ApplyLines(StreamStart(sid), sid, LinesOfRun(sessions[sid].logs))
                   s == sessions[sid]
               IN  /\ s.status = FinishedStatus(worker[sid].returncode = Some(0))
                   /\ s.case_status = st.ss[sid].case_status
                   /\ s.current_case_name = st.ss[sid].current_case_name
                   /\ s.progress = st.ss[sid].progress
                   /\ s.stats.passed = st.w.totals.passed
                   /\ s.stats.failed = st.w.totals.failed
                   /\ s.stats.skipped = st.w.totals.skipped
                   /\ Len(LinesOfRun(s.logs)) <= worker[sid].nread)

\* two workers have finished: one read the Start line of A and its PASS line
\* and exited with code 0, the other read the PASS line and then the Start
\* line and exited with code 1
C32_Witness ==
    /\ DOMAIN worker = MultiIds
    /\ \A sid \in MultiIds : worker[sid].pc = "done" /\ worker[sid].spawn = "ok"
    /\ \E sid \in MultiIds :
         /\ sessions[sid].status = "COMPLETED"
         /\ sessions[sid].case_status = (CaseA :> CASE_PASS)
         /\ sessions[sid].progress = [total_steps |-> 1, current_step |-> 1]
    /\ \E sid \in MultiIds :
         /\ sessions[sid].status = "FAILED"
         /\ sessions[sid].case_status = (CaseA :> CASE_TESTING)
         /\ sessions[sid].stats.passed = 1
         /\ sessions[sid].progress = [total_steps |-> 1, current_step |-> 0]

====
